---- MODULE Spec2Model ----
(***************************************************************************)
(* A model of the Onu pipeline: the Lexer (lexer.rs), the semantic         *)
(* Registry (registry.rs), the arity-driven recursive descent parser       *)
(* (parser.rs), the validators (linguistics.rs, interpreter.rs), the       *)
(* two-pass driver Session::run_script (lib.rs), the Monomorphizer         *)
(* (monomorphize.rs), the MirBuilder (mir.rs) and the evaluator            *)
(* (interpreter.rs).                                                       *)
(*                                                                         *)
(* The specifications:                                                     *)
(*   SpecReg     - the public operations of one Registry value;            *)
(*   SpecParse   - one Parser over a token buffer and a Registry;          *)
(*   Spec        - a new Session running one script through both passes;   *)
(*   SpecSession - a Session running several scripts, the token vector    *)
(*                 ending early in some;                                   *)
(*   SpecLex     - one Lexer over a source text, token by token;           *)
(*   SpecMono    - Monomorphizer::run on a HIR list;                       *)
(*   SpecMir     - MirBuilder::build_program on a HIR list;                *)
(*   SpecEval    - one Interpreter: behaviours registered, expressions     *)
(*                 evaluated;                                              *)
(*   SpecLoops   - the token loop on a source text, and the loops of both  *)
(*                 passes and of behaviors_to_run on a token buffer.       *)
(***************************************************************************)
EXTENDS Integers, Sequences, FiniteSets, TLC

VARIABLES
    registry,   \* the Registry value (registry.rs:46-61); Session.registry under Spec
    holders,    \* history: hash -> name of the first successful register
    last,       \* history: the last Registry operation, its inputs, result and pre-state
    nops,       \* number of Registry operations applied so far
    tokens,     \* Parser.tokens; under Spec the token vector run_script lexed
    preg,       \* Parser.registry: <<>> (None) or <<reg>>
    parser,     \* Parser.pos, Parser.is_pure_context, Parser.current_depth
    pres,       \* history: the last parser call, where it started and its Result
    pin,        \* history: how the token buffer was put together
    pc,         \* run_script: the step the run is at
    current_pos,        \* run_script: current_pos of the pass in progress
    discourse,  \* run_script: the unit parsed in this iteration, <<>> or <<d>>
    concern_validator,  \* ConcernValidator.module_name / module_concern
    behaviors_to_run,   \* run_script: the units named run or main, in order
    interpreter_behaviors,      \* Interpreter.behaviors: name -> Discourse
    outcome,    \* the Result<(), String> run_script returned, once it has
    script,     \* history: the unit names the source was put together from
    log,        \* history: the parses and checks run so far, with their results
    accepted,   \* history: name and hash of every successful register of the run
    declared,   \* history: name, parameter count, start and header of every
                \* behaviour of pass 1
    unit_pre,   \* history: the Registry when the current unit's parse began
    pass1_end,  \* history: <<>> or <<the Registry when pass 2 began>>
    session,    \* history: the run_script calls of the Session and what they met
    lexer,      \* Lexer.input (the characters not yet consumed), Lexer.line, Lexer.column
    emitted,    \* history: what each next_token call of the Lexer returned
    hir,        \* the Vec<HirDiscourse> handed to the Monomorphizer or the MirBuilder
    hir_in,     \* history: the HIR list as it was handed over
    monomorphizer,      \* Monomorphizer.type_map, and how far `run` has come
    mir,        \* the MirBuilder of build_program and the functions it has built
    interpreter \* Interpreter.variables, what env.emit was given, and history

regVars == <<registry, holders, last, nops>>
parseVars == <<tokens, preg, parser, pres, pin>>
runVars ==
    <<pc, current_pos, discourse, concern_validator, behaviors_to_run,
      interpreter_behaviors, outcome, script, log, accepted, declared, unit_pre, pass1_end,
      session>>
lexVars == <<lexer, emitted>>
compileVars == <<hir, hir_in, monomorphizer, mir>>
evalVars == <<interpreter>>
stageVars == <<lexVars, compileVars, evalVars>>
vars == <<regVars, parseVars, runVars, stageVars>>

---------------------------------------------------------------------------
(* Bounds                                                                  *)

\* Registry operations applied in one behaviour of SpecReg
MaxOps == 3
\* Distinct semantic hash values offered to register in SpecReg
MaxHash == 2

---------------------------------------------------------------------------
(* Types (types.rs) and signatures (registry.rs)                           *)

\* OnuType: a variant tag, the shape name of Shape(..), the element types of
\* Tuple(..) / Array(..)
Ty(k) == [k |-> k, name |-> "", elems |-> <<>>]
ShapeTy(n) == [k |-> "Shape", name |-> n, elems |-> <<>>]
TupleTy(ts) == [k |-> "Tuple", name |-> "", elems |-> ts]
ArrayTy(t) == [k |-> "Array", name |-> "", elems |-> <<t>>]

BehaviorSignature(inputs, ret) == [input_types |-> inputs, return_type |-> ret]

\* OnuError values; kind "none" stands for Ok(())
OnuError(kind, message, name, other) ==
    [kind |-> kind, message |-> message, name |-> name, other_name |-> other]
NoError == OnuError("none", "", "", "")
ParseError(message) == OnuError("ParseError", message, "", "")
BehaviorConflict(name, other) == OnuError("BehaviorConflict", "", name, other)

---------------------------------------------------------------------------
(* Registry (registry.rs)                                                  *)

\* HashMap::insert: an existing key is overwritten
Put(f, k, v) == (k :> v) @@ f
\* HashMap::remove
Remove(f, k) == [x \in DOMAIN f \ {k} |-> f[x]]
\* HashMap::get as an Option: <<>> is None
Lookup(map, name) == IF name \in DOMAIN map THEN <<map[name]>> ELSE <<>>

RegistryNew ==
    [entries |-> <<>>, names |-> {}, implemented_names |-> {}, arities |-> <<>>,
     signatures |-> <<>>, shapes |-> <<>>, suites |-> {}]

add_shape(reg, name, behaviors) ==
    [reg EXCEPT !.shapes = Put(@, name, behaviors)]

is_registered(reg, name) == name \in reg.names

is_implemented(reg, name) == name \in reg.implemented_names

mark_implemented(reg, name) ==
    [reg EXCEPT !.implemented_names = @ \cup {name}]

\* Option<usize>: None is modelled by HasArity being false
HasArity(reg, name) == name \in DOMAIN reg.arities
get_arity(reg, name) == reg.arities[name]
\* registry.get_arity(&name).unwrap_or(0)
ArityOr0(reg, name) == IF HasArity(reg, name) THEN get_arity(reg, name) ELSE 0

add_name(reg, name, arity) ==
    [reg EXCEPT !.names = @ \cup {name}, !.arities = Put(@, name, arity)]

add_signature(reg, name, signature) ==
    [reg EXCEPT !.names = @ \cup {name},
                !.arities = Put(@, name, Len(signature.input_types)),
                !.signatures = Put(@, name, signature)]

HasSignature(reg, name) == name \in DOMAIN reg.signatures
get_signature(reg, name) == reg.signatures[name]

\* the loop of add_suite over the signatures, in list order
RECURSIVE SuiteSignatures(_, _)
SuiteSignatures(reg, sigs) ==
    IF sigs = <<>> THEN reg
    ELSE SuiteSignatures(
            mark_implemented(add_signature(reg, Head(sigs).name, Head(sigs).sig),
                             Head(sigs).name),
            Tail(sigs))

\* the loop of add_suite over the shapes, in list order
RECURSIVE SuiteShapes(_, _)
SuiteShapes(reg, shapes) ==
    IF shapes = <<>> THEN reg
    ELSE SuiteShapes(add_shape(reg, Head(shapes).name, Head(shapes).behaviors),
                     Tail(shapes))

\* mutant: the suite guard is dropped, every call seeds again
add_suite_Reseed(reg, name, signatures, shapes) ==
    SuiteShapes(SuiteSignatures([reg EXCEPT !.suites = @ \cup {name}], signatures),
                shapes)

add_suite(reg, name, signatures, shapes) ==
    IF name \in reg.suites THEN reg
    ELSE SuiteShapes(SuiteSignatures([reg EXCEPT !.suites = @ \cup {name}], signatures),
                     shapes)

\* mutant: a held hash is taken over by the new name instead of being refused
register_Overwrite(reg, name, hash) ==
    [reg |-> [reg EXCEPT !.names = @ \cup {name},
                         !.implemented_names = @ \cup {name},
                         !.entries = Put(@, hash, name)],
     err |-> NoError]

\* mutant: register also enters the name with add_name(name, 0)
register_AddName(reg, name, hash) ==
    IF hash \in DOMAIN reg.entries
    THEN [reg |-> reg, err |-> BehaviorConflict(name, reg.entries[hash])]
    ELSE [reg |-> [reg EXCEPT !.names = @ \cup {name},
                              !.arities = Put(@, name, 0),
                              !.implemented_names = @ \cup {name},
                              !.entries = Put(@, hash, name)],
          err |-> NoError]

\* Result<(), OnuError> together with the Registry after the call
register(reg, name, hash) ==
    IF hash \in DOMAIN reg.entries
    THEN [reg |-> reg, err |-> BehaviorConflict(name, reg.entries[hash])]
    ELSE [reg |-> [reg EXCEPT !.names = @ \cup {name},
                              !.implemented_names = @ \cup {name},
                              !.entries = Put(@, hash, name)],
          err |-> NoError]

satisfies(reg, type_name, shape_name) ==
    IF shape_name \in DOMAIN reg.shapes
    THEN LET required_behaviors == reg.shapes[shape_name]
         IN  \A i \in 1..Len(required_behaviors) :
                /\ required_behaviors[i].name \in reg.implemented_names
                /\ (HasSignature(reg, required_behaviors[i].name)
                      => get_signature(reg, required_behaviors[i].name)
                           = required_behaviors[i].sig)
    ELSE FALSE

---------------------------------------------------------------------------
(* Tokens (the Token variants parser.rs matches on) and the AST            *)

\* a Token: its variant, the String payload, the integer payload
Tok(t) == [t |-> t, s |-> "", n |-> 0]
Ident(s) == [t |-> "Identifier", s |-> s, n |-> 0]
IntLit(n) == [t |-> "IntegerLiteral", s |-> "", n |-> n]
NumLit(s) == [t |-> "NumericLiteral", s |-> s, n |-> 0]
TextLit(s) == [t |-> "TextLiteral", s |-> s, n |-> 0]
BoolLit(b) == [t |-> "BooleanLiteral", s |-> "", n |-> IF b THEN 1 ELSE 0]
\* what peeking past the end of the buffer gives (Option::None)
EOFTok == Tok("EOF")

\* an Expression: variant k, String payload s (name, text, shape), integer
\* payloads n and m (literal value or rows, cols), the Option<TypeInfo> of a
\* Derivation (<<>> is None) and the child expressions
Node(k, s, n, m, ti, args) ==
    [k |-> k, s |-> s, n |-> n, m |-> m, ti |-> ti, args |-> args]
Leaf(k, s, n) == Node(k, s, n, 0, <<>>, <<>>)
NothingExpr == Leaf("Nothing", "", 0)
IdentifierExpr(s) == Leaf("Identifier", s, 0)
BehaviorCall(name, args) == Node("BehaviorCall", name, 0, 0, <<>>, args)
ActsAsExpr(subject, shape) == Node("ActsAs", shape, 0, 0, <<>>, <<subject>>)
DerivationExpr(name, ti, value, body) ==
    Node("Derivation", name, 0, 0, ti, <<value, body>>)
IfExpr(c, a, b) == Node("If", "", 0, 0, <<>>, <<c, a, b>>)
BlockExpr(exprs) == Node("Block", "", 0, 0, <<>>, exprs)

\* TypeInfo; via_role is <<>> (None) or <<role>>
TypeInfo(onu_type, display_name, article, via_role) ==
    [onu_type |-> onu_type, display_name |-> display_name, article |-> article,
     via_role |-> via_role]

\* the scaled width of i64 in the model (the code's is 64)
I64Bits == 6
\* the scaled width of i128, the type of Token::IntegerLiteral (the code's is 128)
I128Bits == 8
RECURSIVE Pow2(_)
Pow2(n) == IF n = 0 THEN 1 ELSE 2 * Pow2(n - 1)
\* `n as i64`: two's complement truncation
AsI64(n) == ((n + Pow2(I64Bits - 1)) % Pow2(I64Bits)) - Pow2(I64Bits - 1)

---------------------------------------------------------------------------
(* Parser (parser.rs)                                                      *)

max_depth == 16

\* the mutable fields of a Parser; the token slice and the Option<&Registry>
\* (<<>> is None, <<reg>> is Some) are passed beside it. History: peak, the
\* highest value current_depth has held; active, the parse_expression calls
\* that have passed enter_expression and not yet returned; most, the highest
\* value active has held
ParserNew ==
    [pos |-> 0, is_pure_context |-> FALSE, current_depth |-> 0, peak |-> 0,
     active |-> 0, most |-> 0]

\* a Result together with the parser after the call
Ok(p, v) == [ok |-> TRUE, err |-> NoError, p |-> p, v |-> v]
Fail(p, message) == [ok |-> FALSE, err |-> ParseError(message), p |-> p, v |-> <<>>]

Adv(p) == [p EXCEPT !.pos = @ + 1]

is_eof(toks, p) == p.pos >= Len(toks)

peek_ahead(toks, p, offset) ==
    IF p.pos + offset < Len(toks) THEN toks[p.pos + offset + 1] ELSE EOFTok

peek_token(toks, p) == peek_ahead(toks, p, 0)

DiscourseMarkers ==
    {"TheModuleCalled", "TheShape", "TheBehaviorCalled", "TheEffectBehaviorCalled"}

is_terminator(token) ==
    token.t \in {"RParen", "RBracket", "Returning", "Delivers", "As", "Then", "Else",
                 "WithIntent", "Receiving", "Takes", "WithDiminishing",
                 "NoGuaranteedTermination", "Promises", "WithConcern"}
                \cup DiscourseMarkers

consume(toks, p, expected) ==
    IF is_eof(toks, p) THEN Fail(p, "Expected token, found EOF")
    ELSE IF peek_token(toks, p).t = expected THEN Ok(Adv(p), <<>>)
    ELSE Fail(p, "Expected token, found another")

\* the `?` operator: an Err is returned at once, an Ok result goes on into K
Try(r, K(_)) == IF r.ok THEN K(r) ELSE r

\* the keyword tokens consume_identifier accepts, with the lexeme it returns
KeywordLexeme ==
    [Integer |-> "integer", Float |-> "float", RealNumber |-> "realnumber",
     Strings |-> "string", Matrix |-> "matrix", Nothing |-> "nothing",
     The |-> "the", With |-> "with", If |-> "if", Is |-> "is", Called |-> "called",
     As |-> "as", Emit |-> "emit", Broadcasts |-> "broadcasts", A |-> "a", An |-> "an",
     Of |-> "of", Derivation |-> "derivation", DerivesFrom |-> "derives-from",
     Takes |-> "takes", Delivers |-> "delivers", Utilizes |-> "utilizes",
     ActsAs |-> "acts-as", Matches |-> "matches", Exceeds |-> "exceeds",
     FallsShortOf |-> "falls-short-of", ScalesBy |-> "scales-by",
     PartitionsBy |-> "partitions-by", UnitesWith |-> "unites-with",
     JoinsWith |-> "joins-with", Opposes |-> "opposes",
     DecreasedBy |-> "decreased-by", InitOf |-> "init-of", TailOf |-> "tail-of"]

consume_identifier(toks, regopt, p, restricted) ==
    LET tok == peek_token(toks, p) IN
    IF is_eof(toks, p) THEN Fail(p, "Expected Identifier, found EOF")
    ELSE IF tok.t = "Identifier"
         THEN IF restricted /\ regopt # <<>> /\ is_registered(regopt[1], tok.s)
              THEN Fail(p, "Ambiguous identifier: Name is already used by a registered behavior.")
              ELSE Ok(Adv(p), tok.s)
    ELSE IF tok.t \in DOMAIN KeywordLexeme THEN Ok(Adv(p), KeywordLexeme[tok.t])
    ELSE IF tok.t = "NumericLiteral" THEN Ok(Adv(p), tok.s)
    ELSE IF tok.t = "IntegerLiteral" THEN Ok(Adv(p), ToString(tok.n))
    ELSE IF tok.t = "TextLiteral" THEN Ok(Adv(p), tok.s)
    ELSE Fail(p, "Expected Identifier, found another")

\* OnuType::from_name(..).unwrap_or(OnuType::Shape(name))
FromNameTable ==
    [i8 |-> "I8", i16 |-> "I16", i32 |-> "I32", i64 |-> "I64", i128 |-> "I128",
     u8 |-> "U8", u16 |-> "U16", u32 |-> "U32", u64 |-> "U64", u128 |-> "U128",
     f32 |-> "F32", f64 |-> "F64", boolean |-> "Boolean", strings |-> "Strings",
     matrix |-> "Matrix", nothing |-> "Nothing", integer |-> "I64", float |-> "F64"]
from_name_or_shape(name) ==
    IF name \in DOMAIN FromNameTable THEN Ty(FromNameTable[name]) ELSE ShapeTy(name)

\* p with the token skipped when it is one of kinds
SkipIf(toks, p, kinds) == IF peek_token(toks, p).t \in kinds THEN Adv(p) ELSE p

RECURSIVE parse_type_info(_, _, _)
RECURSIVE TupleTypes(_, _, _, _)

\* the loop of the "tuple" arm: one type, then a Colon or an Identifier(",")
\* separator to go on
TupleTypes(toks, regopt, p, types) ==
    Try(parse_type_info(toks, regopt, p), LAMBDA r :
        IF peek_token(toks, r.p).t = "Colon"
           \/ peek_token(toks, r.p) = Ident(",")
        THEN TupleTypes(toks, regopt, Adv(r.p), Append(types, r.v.onu_type))
        ELSE Ok(r.p, Append(types, r.v.onu_type)))

\* the `match type_name.as_str()` of parse_type_info
NamedType(toks, regopt, p, type_name) ==
    IF type_name = "tuple"
    THEN Try(consume(toks, p, "LParen"), LAMBDA rl :
         Try(TupleTypes(toks, regopt, rl.p, <<>>), LAMBDA rs :
         Try(consume(toks, rs.p, "RParen"), LAMBDA rr :
             Ok(rr.p, TupleTy(rs.v)))))
    ELSE IF type_name = "array"
    THEN Try(consume(toks, p, "Of"), LAMBDA ro :
         Try(parse_type_info(toks, regopt, ro.p), LAMBDA ri :
             Ok(ri.p, ArrayTy(ri.v.onu_type))))
    ELSE Ok(p, from_name_or_shape(type_name))

\* the optional article of parse_type_info: Token::Nothing when there is none
ArticleAt(toks, p) ==
    IF peek_token(toks, p).t \in {"A", "An", "The"} THEN peek_token(toks, p).t
    ELSE "Nothing"

parse_type_info(toks, regopt, p) ==
    IF peek_token(toks, p).t = "Nothing"
    THEN Ok(Adv(p), TypeInfo(Ty("Nothing"), "nothing", "Nothing", <<>>))
    ELSE Try(consume_identifier(toks, regopt, SkipIf(toks, p, {"A", "An", "The"}), FALSE),
             LAMBDA rn :
         Try(NamedType(toks, regopt, SkipIf(toks, rn.p, {"Of"}), rn.v), LAMBDA rt :
             Ok(rt.p, TypeInfo(rt.v, rn.v, ArticleAt(toks, p), <<>>))))

\* BehaviorHeader; diminishing is <<>> (None) or <<name>>; intent is the list
\* of words the code joins with single spaces
BehaviorHeader(name, is_effect, intent, takes, delivers, diminishing, skip) ==
    [name |-> name, is_effect |-> is_effect, intent |-> intent, takes |-> takes,
     delivers |-> delivers, diminishing |-> diminishing,
     skip_termination_check |-> skip]
Argument(name, type_info) == [name |-> name, type_info |-> type_info]

\* the word loops of `with intent:` (stops = the header keywords) and of
\* `with concern:` (stops = the discourse markers); both also stop at EOF
RECURSIVE Words(_, _, _, _, _)
Words(toks, regopt, p, stops, acc) ==
    IF is_eof(toks, p) \/ peek_token(toks, p).t \in stops THEN Ok(p, acc)
    ELSE Try(consume_identifier(toks, regopt, p, FALSE), LAMBDA r :
             Words(toks, regopt, r.p, stops, Append(acc, r.v)))

\* the optional `via the role <shape>` after a parameter name: rv is the
\* consumed name, the value is the via_role of the parameter
ViaRole(toks, regopt, rv) ==
    IF peek_token(toks, rv.p).t = "Via"
    THEN Try(consume(toks, Adv(rv.p), "The"), LAMBDA r1 :
         Try(consume(toks, r1.p, "Role"), LAMBDA r2 :
         Try(consume_identifier(toks, regopt, r2.p, FALSE), LAMBDA r3 :
             Ok(r3.p, <<r3.v>>))))
    ELSE Ok(rv.p, <<>>)

\* the token after the type of a parameter: Token::Called or Identifier("called")
\* is skipped
SkipCalled(toks, p) ==
    IF peek_token(toks, p).t = "Called" \/ peek_token(toks, p) = Ident("called")
    THEN Adv(p) ELSE p

\* the parameter loop of parse_behavior_header
RECURSIVE HeaderArguments(_, _, _, _)
HeaderArguments(toks, regopt, p, takes) ==
    IF is_eof(toks, p)
       \/ peek_token(toks, p).t \in {"Returning", "Delivers", "As", "WithDiminishing",
                                     "NoGuaranteedTermination"}
    THEN Ok(p, takes)
    ELSE Try(parse_type_info(toks, regopt, p), LAMBDA rt :
         Try(consume_identifier(toks, regopt, SkipCalled(toks, rt.p), TRUE), LAMBDA rv :
         Try(ViaRole(toks, regopt, rv), LAMBDA rr :
             HeaderArguments(toks, regopt, rr.p,
                 Append(takes, Argument(rv.v, [rt.v EXCEPT !.via_role = rr.v]))))))

\* the optional `with intent:` clause
HeaderIntent(toks, regopt, p) ==
    IF peek_token(toks, p).t = "WithIntent"
    THEN Try(consume(toks, Adv(p), "Colon"), LAMBDA rc :
             Words(toks, regopt, rc.p,
                   {"Receiving", "Takes", "Returning", "Delivers", "WithDiminishing",
                    "NoGuaranteedTermination", "As"}, <<>>))
    ELSE Ok(p, <<>>)

\* `takes` with an optional colon, or `receiving` and its colon
HeaderTakesClause(toks, p) ==
    IF peek_token(toks, p).t = "Takes"
    THEN Ok(SkipIf(toks, Adv(p), {"Colon"}), <<>>)
    ELSE Try(consume(toks, p, "Receiving"), LAMBDA rr : consume(toks, rr.p, "Colon"))

\* `nothing`, or the parameter loop
HeaderTakes(toks, regopt, p) ==
    IF peek_token(toks, p).t = "Nothing" THEN Ok(Adv(p), <<>>)
    ELSE HeaderArguments(toks, regopt, p, <<>>)

\* `delivers` or `returning`, an optional colon, and the type
HeaderDelivers(toks, regopt, p) ==
    Try((IF peek_token(toks, p).t = "Delivers" THEN Ok(Adv(p), <<>>)
         ELSE consume(toks, p, "Returning")), LAMBDA rd :
        parse_type_info(toks, regopt, SkipIf(toks, rd.p, {"Colon"})))

\* `with diminishing: <name>`, `no guaranteed termination`, or neither; the
\* value is the pair diminishing, skip_termination_check
HeaderTermination(toks, regopt, p) ==
    IF peek_token(toks, p).t = "WithDiminishing"
    THEN Try(consume(toks, Adv(p), "Colon"), LAMBDA rc :
         Try(consume_identifier(toks, regopt, rc.p, TRUE), LAMBDA ri :
             Ok(ri.p, <<<<ri.v>>, FALSE>>)))
    ELSE IF peek_token(toks, p).t = "NoGuaranteedTermination"
    THEN Ok(Adv(p), <<<<>>, TRUE>>)
    ELSE Ok(p, <<<<>>, FALSE>>)

parse_behavior_header(toks, regopt, p) ==
    Try((IF peek_token(toks, p).t = "TheEffectBehaviorCalled"
         THEN consume(toks, p, "TheEffectBehaviorCalled")
         ELSE consume(toks, p, "TheBehaviorCalled")), LAMBDA r0 :
    Try(consume_identifier(toks, regopt, r0.p, FALSE), LAMBDA rname :
    Try(HeaderIntent(toks, regopt, rname.p), LAMBDA rintent :
    Try(HeaderTakesClause(toks, rintent.p), LAMBDA rclause :
    Try(HeaderTakes(toks, regopt, rclause.p), LAMBDA rtakes :
    Try(HeaderDelivers(toks, regopt, rtakes.p), LAMBDA rret :
    Try(HeaderTermination(toks, regopt, rret.p), LAMBDA rterm :
        Ok(rterm.p,
           BehaviorHeader(rname.v, peek_token(toks, p).t = "TheEffectBehaviorCalled",
                          rintent.v, rtakes.v, rret.v.onu_type,
                          rterm.v[1], rterm.v[2])))))))))

RECURSIVE parse_expression(_, _, _)
RECURSIVE parse_primary(_, _, _)
RECURSIVE InfixLoop(_, _, _, _)
RECURSIVE CallArguments(_, _, _, _, _)
RECURSIVE BodyExpressions(_, _, _, _)
RECURSIVE TupleExpressions(_, _, _, _)
RECURSIVE BracketElements(_, _, _, _)

\* the verb tokens of the infix match, with the behaviour name each stands for
VerbName ==
    [Matches |-> "matches", Exceeds |-> "exceeds", FallsShortOf |-> "falls-short-of",
     ScalesBy |-> "scales-by", PartitionsBy |-> "partitions-by",
     UnitesWith |-> "unites-with", JoinsWith |-> "joins-with",
     Opposes |-> "opposes", DecreasedBy |-> "decreased-by", InitOf |-> "init-of",
     TailOf |-> "tail-of"]

Deeper(p) ==
    [p EXCEPT !.current_depth = @ + 1,
              !.peak = IF p.current_depth + 1 > @ THEN p.current_depth + 1 ELSE @]

\* a parse_expression call goes on past enter_expression
Entered(p) ==
    [p EXCEPT !.active = @ + 1, !.most = IF p.active + 1 > @ THEN p.active + 1 ELSE @]

\* mutant: no limit
enter_expression_Unguarded(p) == Ok(Entered(Deeper(p)), <<>>)

\* mutant: the limit itself is refused
enter_expression_Strict(p) ==
    IF p.current_depth + 1 >= max_depth
    THEN Fail(Deeper(p), "KISS VIOLATION: The discourse is too deep")
    ELSE Ok(Entered(Deeper(p)), <<>>)

enter_expression(p) ==
    IF p.current_depth + 1 > max_depth
    THEN Fail(Deeper(p), "KISS VIOLATION: The discourse is too deep")
    ELSE Ok(Entered(Deeper(p)), <<>>)

exit_expression(p) == [p EXCEPT !.current_depth = @ - 1, !.active = @ - 1]

\* mutant: the arguments after the subject are parsed as whole expressions
RECURSIVE CallArguments_Expression(_, _, _, _, _)
CallArguments_Expression(toks, regopt, p, count, args) ==
    IF count <= 0 THEN Ok(p, args)
    ELSE Try(parse_expression(toks, regopt, p), LAMBDA r :
             CallArguments_Expression(toks, regopt, r.p, count - 1, Append(args, r.v)))

\* `for _ in 0..(arity.saturating_sub(1)) { args.push(self.parse_primary()?) }`
CallArguments(toks, regopt, p, count, args) ==
    IF count <= 0 THEN Ok(p, args)
    ELSE Try(parse_primary(toks, regopt, p), LAMBDA r :
             CallArguments(toks, regopt, r.p, count - 1, Append(args, r.v)))

\* the name the verb token at p stands for; only `utilizes` and the name after
\* it are consumed here
InfixName(toks, regopt, p) ==
    IF peek_token(toks, p).t = "Utilizes"
    THEN consume_identifier(toks, regopt, Adv(p), FALSE)
    ELSE IF peek_token(toks, p).t = "Identifier" THEN Ok(p, peek_token(toks, p).s)
    ELSE Ok(p, VerbName[peek_token(toks, p).t])

\* the `while let Some(token) = self.peek_token()` loop of parse_expression
InfixLoop(toks, regopt, p, left) ==
    IF peek_token(toks, p).t \in {"Utilizes", "Identifier"} \cup DOMAIN VerbName
    THEN Try(InfixName(toks, regopt, p), LAMBDA rn :
             IF regopt # <<>> /\ is_registered(regopt[1], rn.v)
             THEN Try(CallArguments(toks, regopt,
                                    (IF peek_token(toks, p).t # "Utilizes"
                                     THEN Adv(rn.p) ELSE rn.p),
                                    ArityOr0(regopt[1], rn.v) - 1, <<left>>),
                      LAMBDA ra :
                          InfixLoop(toks, regopt, ra.p, BehaviorCall(rn.v, ra.v)))
             ELSE Ok(rn.p, left))
    ELSE IF peek_token(toks, p).t = "ActsAs"
    THEN Try(consume_identifier(toks, regopt,
                                SkipIf(toks, Adv(p), {"A", "An", "The"}), FALSE),
             LAMBDA rs : InfixLoop(toks, regopt, rs.p, ActsAsExpr(left, rs.v)))
    ELSE Ok(p, left)

parse_expression(toks, regopt, p) ==
    Try(enter_expression(p), LAMBDA re :
    Try(parse_primary(toks, regopt, re.p), LAMBDA rl :
    Try(InfixLoop(toks, regopt, rl.p, rl.v), LAMBDA rr :
        Ok(exit_expression(rr.p), rr.v))))

\* the body loop of a derivation or let: expressions up to a terminator or EOF
BodyExpressions(toks, regopt, p, exprs) ==
    IF is_eof(toks, p) \/ is_terminator(peek_token(toks, p)) THEN Ok(p, exprs)
    ELSE Try(parse_expression(toks, regopt, p), LAMBDA r :
             BodyExpressions(toks, regopt, r.p, Append(exprs, r.v)))

\* `while let Some(Token::Colon) = self.peek_token()` of the LParen arm
TupleExpressions(toks, regopt, p, exprs) ==
    IF peek_token(toks, p).t = "Colon"
    THEN Try(parse_expression(toks, regopt, Adv(p)), LAMBDA r :
             TupleExpressions(toks, regopt, r.p, Append(exprs, r.v)))
    ELSE Ok(p, exprs)

\* the loop of the LBracket arm; st holds data, rows, cols, current_row_cols,
\* is_matrix
BracketElements(toks, regopt, p, st) ==
    IF is_eof(toks, p) \/ peek_token(toks, p).t = "RBracket" THEN Ok(p, st)
    ELSE IF peek_token(toks, p).t = "Colon"
    THEN IF st.cols # 0 /\ st.current_row_cols # st.cols
         THEN Fail(Adv(p), "Matrix Error: Inconsistent column count.")
         ELSE BracketElements(toks, regopt, Adv(p),
                  [st EXCEPT !.is_matrix = TRUE,
                             !.cols = IF st.cols = 0 THEN st.current_row_cols ELSE @,
                             !.rows = @ + 1,
                             !.current_row_cols = 0])
    ELSE Try(parse_expression(toks, regopt, p), LAMBDA r :
             BracketElements(toks, regopt, r.p,
                 [st EXCEPT !.data = Append(@, r.v), !.current_row_cols = @ + 1]))

\* the value of a derivation body: Nothing, the single expression, or a Block
BodyOf(exprs) ==
    IF exprs = <<>> THEN NothingExpr
    ELSE IF Len(exprs) = 1 THEN exprs[1] ELSE BlockExpr(exprs)

\* the common tail of the Derivation and Let arms, from the value on
DerivationTail(toks, regopt, p, name, ti) ==
    Try(parse_expression(toks, regopt, p), LAMBDA rv :
    Try(BodyExpressions(toks, regopt, [rv.p EXCEPT !.current_depth = 1], <<>>),
        LAMBDA rb :
            Ok([rb.p EXCEPT !.current_depth = rv.p.current_depth],
               DerivationExpr(name, ti, rv.v, BodyOf(rb.v)))))

\* the LParen arm of parse_primary, from the token after the parenthesis on
PrimaryParen(toks, regopt, p) ==
    IF peek_token(toks, p).t = "RParen"
    THEN Ok(Adv(p), Node("Tuple", "", 0, 0, <<>>, <<>>))
    ELSE Try(parse_expression(toks, regopt, p), LAMBDA r1 :
         Try(TupleExpressions(toks, regopt, r1.p, <<r1.v>>), LAMBDA rs :
         Try(consume(toks, rs.p, "RParen"), LAMBDA rc :
             IF Len(rs.v) > 1 THEN Ok(rc.p, Node("Tuple", "", 0, 0, <<>>, rs.v))
             ELSE Ok(rc.p, rs.v[1]))))

\* the LBracket arm of parse_primary, from the token after the bracket on
PrimaryBracket(toks, regopt, p) ==
    Try(BracketElements(toks, regopt, p,
            [data |-> <<>>, rows |-> 1, cols |-> 0, current_row_cols |-> 0,
             is_matrix |-> FALSE]), LAMBDA rb :
    Try(consume(toks, rb.p, "RBracket"), LAMBDA rc :
        IF rb.v.is_matrix
        THEN IF rb.v.cols # 0 /\ rb.v.current_row_cols # rb.v.cols
             THEN Fail(rc.p, "Matrix Error: Inconsistent column count in final row.")
             ELSE Ok(rc.p, Node("Matrix", "", rb.v.rows,
                                IF rb.v.cols = 0 THEN rb.v.current_row_cols
                                ELSE rb.v.cols, <<>>, rb.v.data))
        ELSE Ok(rc.p, Node("Array", "", 0, 0, <<>>, rb.v.data))))

\* the Emit | Broadcasts arm of parse_primary
PrimaryEmit(toks, regopt, p) ==
    IF p.is_pure_context
    THEN Fail(p, "Side-effect is not allowed in a pure behavior.")
    ELSE Try(parse_expression(toks, regopt, Adv(p)), LAMBDA r :
             Ok(r.p, Node(peek_token(toks, p).t, "", 0, 0, <<>>, <<r.v>>)))

\* the Derivation arm of parse_primary
PrimaryDerivation(toks, regopt, p) ==
    Try(consume(toks, Adv(p), "Colon"), LAMBDA rc :
    Try(consume_identifier(toks, regopt, rc.p, TRUE), LAMBDA rn :
    Try(consume(toks, rn.p, "DerivesFrom"), LAMBDA rd :
        IF peek_token(toks, rd.p).t \in {"A", "An", "The", "Nothing"}
        THEN Try(parse_type_info(toks, regopt, rd.p), LAMBDA rt :
                 DerivationTail(toks, regopt, rt.p, rn.v, <<rt.v>>))
        ELSE DerivationTail(toks, regopt, rd.p, rn.v, <<>>))))

\* the Let arm of parse_primary
PrimaryLet(toks, regopt, p) ==
    Try(consume_identifier(toks, regopt, Adv(p), TRUE), LAMBDA rn :
    Try(consume(toks, rn.p, "Is"), LAMBDA ri :
    Try(parse_type_info(toks, regopt, ri.p), LAMBDA rt :
        DerivationTail(toks, regopt, rt.p, rn.v, <<rt.v>>))))

\* the If arm of parse_primary
PrimaryIf(toks, regopt, p) ==
    Try(parse_expression(toks, regopt, Adv(p)), LAMBDA rc :
    Try(consume(toks, rc.p, "Then"), LAMBDA r1 :
    Try(parse_expression(toks, regopt, r1.p), LAMBDA ra :
    Try(consume(toks, ra.p, "Else"), LAMBDA r2 :
    Try(parse_expression(toks, regopt, r2.p), LAMBDA rb :
        Ok(rb.p, IfExpr(rc.v, ra.v, rb.v)))))))

\* the Identifier arm of parse_primary
PrimaryIdentifier(toks, regopt, p) ==
    IF regopt # <<>> /\ is_registered(regopt[1], peek_token(toks, p).s)
    THEN IF ArityOr0(regopt[1], peek_token(toks, p).s) > 0
         THEN Fail(p, "The behavior refuses to be used as a prefix. Please utilize Subject-Verb-Object (SVO) grammar.")
         ELSE Ok(Adv(p), BehaviorCall(peek_token(toks, p).s, <<>>))
    ELSE Ok(Adv(p), IdentifierExpr(peek_token(toks, p).s))

\* the literal arms of parse_primary
PrimaryLiteral(tok) ==
    IF tok.t = "NumericLiteral" THEN Leaf("F64", tok.s, 0)
    ELSE IF tok.t = "IntegerLiteral" THEN Leaf("I64", "", AsI64(tok.n))
    ELSE IF tok.t = "BooleanLiteral" THEN Leaf("Boolean", "", tok.n)
    ELSE IF tok.t = "TextLiteral" THEN Leaf("Text", tok.s, 0)
    ELSE NothingExpr

\* the `match self.peek_token()` of parse_primary; the arms exclude one another
parse_primary(toks, regopt, p) ==
    CASE is_eof(toks, p) -> Fail(p, "Expected primary expression, found EOF")
      [] peek_token(toks, p).t \in {"NumericLiteral", "IntegerLiteral", "BooleanLiteral",
                                    "TextLiteral", "Nothing"}
            -> Ok(Adv(p), PrimaryLiteral(peek_token(toks, p)))
      [] peek_token(toks, p).t = "LParen" -> PrimaryParen(toks, regopt, Adv(p))
      [] peek_token(toks, p).t = "LBracket" -> PrimaryBracket(toks, regopt, Adv(p))
      [] peek_token(toks, p).t \in {"Emit", "Broadcasts"} -> PrimaryEmit(toks, regopt, p)
      [] peek_token(toks, p).t = "Derivation" -> PrimaryDerivation(toks, regopt, p)
      [] peek_token(toks, p).t = "Let" -> PrimaryLet(toks, regopt, p)
      [] peek_token(toks, p).t = "If" -> PrimaryIf(toks, regopt, p)
      [] peek_token(toks, p).t = "Identifier" -> PrimaryIdentifier(toks, regopt, p)
      [] peek_token(toks, p).t = "A" -> Ok(Adv(p), IdentifierExpr("a"))
      [] peek_token(toks, p).t = "An" -> Ok(Adv(p), IdentifierExpr("an"))
      [] peek_token(toks, p).t \in {"Integer", "Float", "RealNumber", "Strings", "Matrix"}
            -> Fail(Adv(p), "Unexpected keyword in primary expression. Specific types cannot be used as variable names.")
      [] OTHER -> Fail(p, "Expected primary expression, found another token")

\* Discourse: Module { name, concern }, Shape { name, behaviors },
\* Behavior { header, body }; the fields a variant lacks are empty
NoHeader == BehaviorHeader("", FALSE, <<>>, <<>>, Ty("Nothing"), <<>>, FALSE)
ModuleDiscourse(name, concern) ==
    [kind |-> "Module", name |-> name, concern |-> concern, behaviors |-> <<>>,
     header |-> NoHeader, body |-> NothingExpr]
ShapeDiscourse(name, behaviors) ==
    [kind |-> "Shape", name |-> name, concern |-> <<>>, behaviors |-> behaviors,
     header |-> NoHeader, body |-> NothingExpr]
BehaviorDiscourse(header, body) ==
    [kind |-> "Behavior", name |-> header.name, concern |-> <<>>, behaviors |-> <<>>,
     header |-> header, body |-> body]

parse_module(toks, regopt, p) ==
    Try(consume(toks, p, "TheModuleCalled"), LAMBDA r0 :
    Try(consume_identifier(toks, regopt, r0.p, FALSE), LAMBDA rn :
    Try(consume(toks, rn.p, "WithConcern"), LAMBDA r1 :
    Try(consume(toks, r1.p, "Colon"), LAMBDA r2 :
    Try(Words(toks, regopt, r2.p, DiscourseMarkers, <<>>), LAMBDA rw :
        Ok(rw.p, ModuleDiscourse(rn.v, rw.v)))))))

\* scans from the token after the marker: As before the next marker or EOF
RECURSIVE HasAsFrom(_, _, _)
HasAsFrom(toks, p, offset) ==
    IF p.pos + offset >= Len(toks) THEN FALSE
    ELSE IF peek_ahead(toks, p, offset).t \in DiscourseMarkers THEN FALSE
    ELSE IF peek_ahead(toks, p, offset).t = "As" THEN TRUE
    ELSE HasAsFrom(toks, p, offset + 1)

header_has_as_clause(toks, p) == HasAsFrom(toks, p, 1)

\* the loop of parse_shape over the promised headers
RECURSIVE ShapeHeaders(_, _, _, _)
ShapeHeaders(toks, regopt, p, behaviors) ==
    IF peek_token(toks, p).t \in {"TheBehaviorCalled", "TheEffectBehaviorCalled"}
       /\ ~header_has_as_clause(toks, p)
    THEN Try(parse_behavior_header(toks, regopt, p), LAMBDA r :
             ShapeHeaders(toks, regopt, r.p, Append(behaviors, r.v)))
    ELSE Ok(p, behaviors)

parse_shape(toks, regopt, p) ==
    Try(consume(toks, p, "TheShape"), LAMBDA r0 :
    Try(consume_identifier(toks, regopt, r0.p, FALSE), LAMBDA rn :
    Try(consume(toks, rn.p, "Promises"), LAMBDA r1 :
    Try(consume(toks, r1.p, "Colon"), LAMBDA r2 :
    Try(ShapeHeaders(toks, regopt, r2.p, <<>>), LAMBDA rb :
        Ok(rb.p, ShapeDiscourse(rn.v, rb.v)))))))

\* the loop of parse_behavior over the body expressions, up to a marker or EOF
RECURSIVE BehaviorExpressions(_, _, _, _)
BehaviorExpressions(toks, regopt, p, expressions) ==
    IF is_eof(toks, p) \/ peek_token(toks, p).t \in DiscourseMarkers
    THEN Ok(p, expressions)
    ELSE Try((IF peek_token(toks, p).t \in {"Derivation", "Let", "If"}
              THEN parse_primary(toks, regopt, p)
              ELSE parse_expression(toks, regopt, p)), LAMBDA r :
             BehaviorExpressions(toks, regopt, r.p, Append(expressions, r.v)))

YieldingKinds ==
    {"I8", "I16", "I32", "I64", "I128", "U8", "U16", "U32", "U64", "U128",
     "F32", "F64", "Text", "Boolean", "Identifier"}

is_yielding(body) ==
    IF body.k \in YieldingKinds THEN TRUE
    ELSE IF body.k = "Block"
         THEN Len(body.args) > 0 /\ body.args[Len(body.args)].k \in YieldingKinds
    ELSE FALSE

\* the end of parse_behavior: the body of the expressions, refused when it
\* yields a value under `delivers nothing`
BehaviorBody(p, header, body) ==
    IF header.delivers = Ty("Nothing") /\ is_yielding(body)
    THEN Fail(p, "Behavior body yields a value but 'delivers nothing' was specified.")
    ELSE Ok(p, BehaviorDiscourse(header, body))

\* mutant: the purity flag is left as the parser holds it
parse_behavior_KeepContext(toks, regopt, p) ==
    Try(parse_behavior_header(toks, regopt, p), LAMBDA rh :
    Try(consume(toks, rh.p, "As"), LAMBDA r1 :
    Try(consume(toks, r1.p, "Colon"), LAMBDA r2 :
    Try(BehaviorExpressions(toks, regopt, r2.p, <<>>), LAMBDA re :
        BehaviorBody(re.p, rh.v,
                     IF Len(re.v) = 1 THEN re.v[1] ELSE BlockExpr(re.v))))))

parse_behavior(toks, regopt, p) ==
    Try(parse_behavior_header(toks, regopt, p), LAMBDA rh :
    Try(consume(toks, [rh.p EXCEPT !.is_pure_context = ~rh.v.is_effect], "As"),
        LAMBDA r1 :
    Try(consume(toks, r1.p, "Colon"), LAMBDA r2 :
    Try(BehaviorExpressions(toks, regopt, r2.p, <<>>), LAMBDA re :
        BehaviorBody(re.p, rh.v,
                     IF Len(re.v) = 1 THEN re.v[1] ELSE BlockExpr(re.v))))))

parse_discourse(toks, regopt, p) ==
    IF is_eof(toks, p) THEN Fail(p, "Expected token, found EOF")
    ELSE IF peek_token(toks, p).t = "TheModuleCalled" THEN parse_module(toks, regopt, p)
    ELSE IF peek_token(toks, p).t = "TheShape" THEN parse_shape(toks, regopt, p)
    ELSE IF peek_token(toks, p).t \in {"TheBehaviorCalled", "TheEffectBehaviorCalled"}
         THEN parse_behavior(toks, regopt, p)
    ELSE Fail(p, "Unexpected token")

\* the body skip of the structural pass: up to the next marker or EOF
RECURSIVE SkipBody(_, _)
SkipBody(toks, p) ==
    IF is_eof(toks, p) \/ peek_token(toks, p).t \in DiscourseMarkers THEN p
    ELSE SkipBody(toks, Adv(p))

\* mutant: the structural parse of a behaviour returns without the position
\* it reached
parse_structural_discourse_Rewind(toks, regopt, p) ==
    IF is_eof(toks, p) THEN Fail(p, "Expected token, found EOF")
    ELSE IF peek_token(toks, p).t = "TheModuleCalled" THEN parse_module(toks, regopt, p)
    ELSE IF peek_token(toks, p).t = "TheShape" THEN parse_shape(toks, regopt, p)
    ELSE IF peek_token(toks, p).t \in {"TheBehaviorCalled", "TheEffectBehaviorCalled"}
         THEN Try(parse_behavior_header(toks, regopt, p), LAMBDA rh :
                  Ok(p, BehaviorDiscourse(rh.v, NothingExpr)))
    ELSE Fail(p, "Unexpected token")

parse_structural_discourse(toks, regopt, p) ==
    IF is_eof(toks, p) THEN Fail(p, "Expected token, found EOF")
    ELSE IF peek_token(toks, p).t = "TheModuleCalled" THEN parse_module(toks, regopt, p)
    ELSE IF peek_token(toks, p).t = "TheShape" THEN parse_shape(toks, regopt, p)
    ELSE IF peek_token(toks, p).t \in {"TheBehaviorCalled", "TheEffectBehaviorCalled"}
         THEN Try(parse_behavior_header(toks, regopt, p), LAMBDA rh :
                  Ok(SkipBody(toks, rh.p), BehaviorDiscourse(rh.v, NothingExpr)))
    ELSE Fail(p, "Unexpected token")

---------------------------------------------------------------------------
(* Session::new (lib.rs): the Registry every Session starts with           *)

I64T == Ty("I64")
F64T == Ty("F64")
StrT == Ty("Strings")
NamedSig(n, inputs, ret) == [name |-> n, sig |-> BehaviorSignature(inputs, ret)]

core_builtins ==
    << NamedSig("joined-with", <<StrT, StrT>>, StrT),
       NamedSig("len", <<StrT>>, I64T),
       NamedSig("char-at", <<StrT, I64T>>, I64T),
       NamedSig("as-text", <<I64T>>, StrT),
       NamedSig("set-char", <<StrT, I64T, I64T>>, StrT) >>

math_signatures ==
    << NamedSig("added-to", <<I64T, I64T>>, I64T),
       NamedSig("decreased-by", <<I64T, I64T>>, I64T),
       NamedSig("subtracted-from", <<I64T, I64T>>, I64T),
       NamedSig("multiplied-by", <<I64T, I64T>>, I64T),
       NamedSig("divided-by", <<I64T, I64T>>, I64T),
       NamedSig("is-zero", <<I64T>>, I64T),
       NamedSig("is-less", <<I64T, I64T>>, I64T),
       NamedSig("is-equal", <<I64T, I64T>>, I64T),
       NamedSig("both-true", <<I64T, I64T>>, I64T),
       NamedSig("either-true", <<I64T, I64T>>, I64T),
       NamedSig("not-true", <<I64T>>, I64T),
       NamedSig("is-equal-to", <<I64T, I64T>>, I64T),
       NamedSig("is-greater-than", <<I64T, I64T>>, I64T),
       NamedSig("is-less-than", <<I64T, I64T>>, I64T),
       NamedSig("sine", <<F64T>>, F64T),
       NamedSig("cosine", <<F64T>>, F64T),
       NamedSig("tangent", <<F64T>>, F64T),
       NamedSig("arcsin", <<F64T>>, F64T),
       NamedSig("arccos", <<F64T>>, F64T),
       NamedSig("arctan", <<F64T>>, F64T),
       NamedSig("square-root", <<F64T>>, F64T),
       NamedSig("raised-to", <<F64T, F64T>>, F64T),
       NamedSig("natural-log", <<F64T>>, F64T),
       NamedSig("exponent", <<F64T>>, F64T),
       NamedSig("dot-product", <<TupleTy(<<>>), TupleTy(<<>>)>>, F64T),
       NamedSig("cross-product", <<TupleTy(<<>>), TupleTy(<<>>)>>, TupleTy(<<>>)),
       NamedSig("determinant", <<Ty("Matrix")>>, F64T) >>

math_shapes ==
    << [name |-> "Addable", behaviors |->
          << NamedSig("added-to", <<ShapeTy("Addable"), ShapeTy("Addable")>>,
                      ShapeTy("Addable")),
             NamedSig("subtracted-from", <<ShapeTy("Addable"), ShapeTy("Addable")>>,
                      ShapeTy("Addable")) >>],
       [name |-> "Multiplicable", behaviors |->
          << NamedSig("multiplied-by",
                      <<ShapeTy("Multiplicable"), ShapeTy("Multiplicable")>>,
                      ShapeTy("Multiplicable")),
             NamedSig("divided-by",
                      <<ShapeTy("Multiplicable"), ShapeTy("Multiplicable")>>,
                      ShapeTy("Multiplicable")) >>],
       [name |-> "Measurable", behaviors |->
          << NamedSig("magnitude", <<ShapeTy("Measurable")>>, F64T) >>] >>

\* Session::new: the core built-ins one by one, then the StandardMath suite
SessionRegistry ==
    add_suite(SuiteSignatures(RegistryNew, core_builtins),
              "StandardMath", math_signatures, math_shapes)

---------------------------------------------------------------------------
(* Discourse units, as the token vectors the lexer hands to the parser     *)

\* `<article> integer called <name>`
IntParam(article, name) == <<Tok(article), Tok("Integer"), Tok("Called"), Ident(name)>>
AnInteger == <<Tok("An"), Tok("Integer")>>

\* the behavior called <name> takes: <params> delivers <ret> <clause> as: <body>
BehaviorTokens(name, params, ret, clause, body) ==
    <<Tok("TheBehaviorCalled"), Ident(name), Tok("Takes"), Tok("Colon")>> \o params
        \o <<Tok("Delivers")>> \o ret \o clause \o <<Tok("As"), Tok("Colon")>> \o body

\* the effect behavior called <name> takes: nothing delivers an integer as: <body>
EffectTokens(name, body) ==
    <<Tok("TheEffectBehaviorCalled"), Ident(name), Tok("Takes"), Tok("Colon"),
      Tok("Nothing"), Tok("Delivers")>> \o AnInteger \o <<Tok("As"), Tok("Colon")>>
        \o body

Units ==
    [module |->
        <<Tok("TheModuleCalled"), Ident("Math"), Tok("WithConcern"), Tok("Colon"),
          Ident("arithmetic")>>,
     \* a shape promising `double` with two parameters
     shape |->
        <<Tok("TheShape"), Ident("Pair"), Tok("Promises"), Tok("Colon"),
          Tok("TheBehaviorCalled"), Ident("double"), Tok("Takes"), Tok("Colon")>>
            \o IntParam("An", "p") \o IntParam("An", "q")
            \o <<Tok("Delivers")>> \o AnInteger,
     double |->
        BehaviorTokens("double", IntParam("An", "n"), AnInteger, <<>>,
                       <<Ident("n"), Ident("added-to"), Ident("n")>>),
     \* the body and signature of `double` under another name
     twice |->
        BehaviorTokens("twice", IntParam("An", "n"), AnInteger, <<>>,
                       <<Ident("n"), Ident("added-to"), Ident("n")>>),
     \* a call of `twice`, which stands before or after this unit
     ahead |->
        BehaviorTokens("ahead", IntParam("An", "n"), AnInteger, <<>>,
                       <<Ident("n"), Ident("twice")>>),
     \* `double` declared again, without parameters
     double0 |->
        BehaviorTokens("double", <<Tok("Nothing")>>, AnInteger, <<>>, <<IntLit(7)>>),
     \* `a integer`
     badart |->
        BehaviorTokens("odd", IntParam("A", "n"), AnInteger, <<>>, <<Ident("n")>>),
     \* a recursive call without a diminishing clause
     loop |->
        BehaviorTokens("loop", IntParam("An", "n"), AnInteger, <<>>,
                       <<Ident("n"), Tok("Utilizes"), Ident("loop")>>),
     \* a recursive call on a value derived by decreased-by from the diminishing one
     count |->
        BehaviorTokens("count", IntParam("An", "n"), AnInteger,
                       <<Tok("WithDiminishing"), Tok("Colon"), Ident("n")>>,
                       <<Tok("Let"), Ident("m"), Tok("Is"), Tok("An"), Tok("Integer"),
                         Ident("n"), Tok("DecreasedBy"), IntLit(1),
                         Ident("m"), Tok("Utilizes"), Ident("count")>>),
     \* a parameter bound to the role Measurable
     role |->
        BehaviorTokens("area",
                       <<Tok("A"), Ident("Widget"), Tok("Called"), Ident("w"), Tok("Via"),
                         Tok("The"), Tok("Role"), Ident("Measurable")>>,
                       AnInteger, <<>>, <<IntLit(4)>>),
     \* the behaviour Measurable promises, with the promised signature
     magnitude |->
        BehaviorTokens("magnitude",
                       <<Tok("A"), Ident("Measurable"), Tok("Called"), Ident("m")>>,
                       <<Tok("A"), Tok("Float")>>, <<>>, <<NumLit("1.5")>>),
     \* a registered verb in primary position
     prefix |->
        BehaviorTokens("sum", <<Tok("Nothing")>>, AnInteger, <<>>,
                       <<Ident("added-to"), IntLit(5), IntLit(2)>>),
     \* a recursive call on a value derived by `decreased-by 0`
     stall |->
        BehaviorTokens("stall", IntParam("An", "n"), AnInteger,
                       <<Tok("WithDiminishing"), Tok("Colon"), Ident("n")>>,
                       <<Tok("Let"), Ident("m"), Tok("Is"), Tok("An"), Tok("Integer"),
                         Ident("n"), Tok("DecreasedBy"), IntLit(0),
                         Ident("m"), Tok("Utilizes"), Ident("stall")>>),
     \* the diminishing parameter is the second one; the recursive call passes
     \* the derived value first and the parameter itself second
     pick |->
        BehaviorTokens("pick", IntParam("An", "a") \o IntParam("An", "n"), AnInteger,
                       <<Tok("WithDiminishing"), Tok("Colon"), Ident("n")>>,
                       <<Tok("Let"), Ident("m"), Tok("Is"), Tok("An"), Tok("Integer"),
                         Ident("n"), Tok("DecreasedBy"), IntLit(1),
                         Ident("m"), Tok("Utilizes"), Ident("pick"), Ident("n")>>),
     \* the derived name is bound again, to a literal, before the recursive call
     shadow |->
        BehaviorTokens("shadow", IntParam("An", "n"), AnInteger,
                       <<Tok("WithDiminishing"), Tok("Colon"), Ident("n")>>,
                       <<Tok("Let"), Ident("m"), Tok("Is"), Tok("An"), Tok("Integer"),
                         Ident("n"), Tok("DecreasedBy"), IntLit(1),
                         Tok("Let"), Ident("m"), Tok("Is"), Tok("An"), Tok("Integer"),
                         IntLit(7),
                         Ident("m"), Tok("Utilizes"), Ident("shadow")>>),
     \* a recursive call under the waiver
     waived |->
        BehaviorTokens("waived", IntParam("An", "n"), AnInteger,
                       <<Tok("NoGuaranteedTermination")>>,
                       <<Ident("n"), Tok("Utilizes"), Ident("waived")>>),
     \* one body in two spellings: emit and broadcasts
     shout |-> EffectTokens("shout", <<Tok("Emit"), IntLit(4)>>),
     yell |-> EffectTokens("yell", <<Tok("Broadcasts"), IntLit(4)>>),
     \* one body in three spellings: a derivation without and with a type
     \* annotation, and a let
     derive |->
        BehaviorTokens("derive", <<Tok("Nothing")>>, AnInteger, <<>>,
                       <<Tok("Derivation"), Tok("Colon"), Ident("m"), Tok("DerivesFrom"),
                         IntLit(5), Ident("m")>>),
     annotated |->
        BehaviorTokens("annotated", <<Tok("Nothing")>>, AnInteger, <<>>,
                       <<Tok("Derivation"), Tok("Colon"), Ident("m"), Tok("DerivesFrom"),
                         Tok("An"), Tok("Integer"), IntLit(5), Ident("m")>>),
     bind |->
        BehaviorTokens("bind", <<Tok("Nothing")>>, AnInteger, <<>>,
                       <<Tok("Let"), Ident("m"), Tok("Is"), Tok("An"), Tok("Integer"),
                         IntLit(5), Ident("m")>>),
     \* behaviours run_script executes: one that emits the result of a call
     \* of `double`, one that binds a name
     main |-> EffectTokens("main", <<Tok("Emit"), IntLit(3), Ident("double")>>),
     run |->
        BehaviorTokens("run", <<Tok("Nothing")>>, AnInteger, <<>>,
                       <<Tok("Let"), Ident("m"), Tok("Is"), Tok("An"), Tok("Integer"),
                         IntLit(5), Ident("m"), Ident("added-to"), IntLit(1)>>),
     \* a second module
     module2 |->
        <<Tok("TheModuleCalled"), Ident("IO"), Tok("WithConcern"), Tok("Colon"),
          Ident("logging")>>,
     \* a header without its takes clause
     broken |->
        <<Tok("TheBehaviorCalled"), Ident("broken"), Tok("As"), Tok("Colon"), IntLit(1)>>]

---------------------------------------------------------------------------
(* The record kept of a parser call, and the parser before any input       *)

\* op is the entry point called, start the position it was called at; expr and
\* disc hold the Ok value (<<>> when the call returned Err or the other kind)
Call(op, start, r) ==
    [op |-> op, start |-> start, ok |-> r.ok, err |-> r.err, end_pos |-> r.p.pos,
     expr |-> IF r.ok /\ op = "parse_expression" THEN <<r.v>> ELSE <<>>,
     disc |-> IF r.ok /\ op \in {"parse_discourse", "parse_structural_discourse"}
             THEN <<r.v>> ELSE <<>>]
NoCall == Call("none", 0, Ok(ParserNew, <<>>))

\* how a token buffer was put together: a chain of primaries and verbs, a verb
\* followed by two literals, a binding construct around a name token, or a
\* whole discourse unit
Input(form, segs, verbs, binder, name, unit, reg) ==
    [form |-> form, segs |-> segs, verbs |-> verbs, binder |-> binder,
     name |-> name, unit |-> unit, reg |-> reg]
NoInput == Input("none", <<>>, <<>>, "", EOFTok, "", "none")

ParseIdle ==
    /\ tokens = <<>>
    /\ preg = <<>>
    /\ parser = ParserNew
    /\ pres = NoCall
    /\ pin = NoInput

\* Lexer::new
LexerNew(chars) == [input |-> chars, line |-> 1, column |-> 1]
\* Monomorphizer::new; history: step, the place `run` is at
MonomorphizerNew == [type_map |-> <<>>, step |-> "new"]
\* MirBuilder::new
MirBuilderNew == [next_ssa_var |-> 0, next_block_id |-> 0, var_map |-> <<>>]
\* the MirBuilder of build_program with no function built; at: the discourses
\* of the HIR list gone through; history: refs, the Variable references met
\* in the last behaviour gone through
MirIdle ==
    [builder |-> MirBuilderNew, functions |-> <<>>, at |-> 0, panic |-> FALSE,
     refs |-> <<>>]

\* no source is being lexed
LexIdle ==
    /\ lexer = LexerNew(<<>>)
    /\ emitted = <<>>

\* no HIR list is being compiled
CompileIdle ==
    /\ hir = <<>>
    /\ hir_in = <<>>
    /\ monomorphizer = MonomorphizerNew
    /\ mir = MirIdle

\* Interpreter::new, without the behaviours (interpreter_behaviors). emitted
\* is what the Environment was given; history: trace, an entry for every
\* visit_let and call_behavior that returned; evals, the calls of
\* evaluate_expression from outside; executed, the behaviours run_script ran;
\* result, what the last call from outside returned
InterpreterNew ==
    [variables |-> <<>>, emitted |-> <<>>, trace |-> <<>>, evals |-> 0,
     executed |-> <<>>, result |-> <<>>]

\* no expression was evaluated
EvalIdle == interpreter = InterpreterNew

StageIdle == LexIdle /\ CompileIdle /\ EvalIdle

\* a Session before run_script is called
ConcernValidatorNew == [module_name |-> <<>>, module_concern |-> <<>>]
Outcome(status, prefix, err) == [status |-> status, prefix |-> prefix, err |-> err]
NoOutcome == Outcome("none", "", NoError)

\* runs: the calls of run_script so far; units: the units their sources held;
\* stop: the lone `-` or the text literal that is not closed of the source of
\* the current run, see Stops; modules: the Module declarations the concern check accepted, with
\* the run each was accepted in
SessionNew == [runs |-> 0, units |-> 0, stop |-> "none", modules |-> <<>>]

RunIdle ==
    /\ pc = "idle"
    /\ current_pos = 0
    /\ discourse = <<>>
    /\ concern_validator = ConcernValidatorNew
    /\ behaviors_to_run = <<>>
    /\ interpreter_behaviors = <<>>
    /\ outcome = NoOutcome
    /\ script = <<>>
    /\ log = <<>>
    /\ accepted = <<>>
    /\ declared = <<>>
    /\ unit_pre = RegistryNew
    /\ pass1_end = <<>>
    /\ session = SessionNew

---------------------------------------------------------------------------
(* SpecReg: the public operations of a Registry, applied in any order      *)

RegNames == {"foo", "bar"}
RegHashes == 1..MaxHash
Sig1 == BehaviorSignature(<<Ty("I64")>>, Ty("I64"))
Sig2 == BehaviorSignature(<<Ty("I64"), Ty("I64")>>, Ty("I64"))
RegSigs == {Sig1, Sig2}
RegShapeNames == {"Measurable"}
Promise(n, s) == [name |-> n, sig |-> s]
\* promise lists offered to add_shape and signature lists offered to add_suite
RegPromiseLists ==
    { <<>>,
      <<Promise("foo", Sig1)>>,
      <<Promise("foo", Sig1), Promise("bar", Sig2)>>,
      <<Promise("foo", Sig2), Promise("foo", Sig1)>> }
RegSuiteNames == {"StandardMath", "Extra"}
SuiteShape(n, b) == [name |-> n, behaviors |-> b]
RegSuiteShapeLists ==
    { <<>>, <<SuiteShape("Measurable", <<Promise("bar", Sig1)>>)>> }

\* the record kept of the last operation
Op(op, name, hash, arity, sigs, shapes, pre, err, result) ==
    [op |-> op, name |-> name, hash |-> hash, arity |-> arity, sigs |-> sigs,
     shapes |-> shapes, pre |-> pre, err |-> err, result |-> result,
     held |-> hash \in DOMAIN holders,
     holder |-> IF hash \in DOMAIN holders THEN holders[hash] ELSE ""]

RegIdle ==
    /\ holders = <<>>
    /\ last = Op("new", "", 0, 0, <<>>, <<>>, RegistryNew, NoError, FALSE)
    /\ nops = 0

InitReg ==
    /\ registry = RegistryNew
    /\ RegIdle
    /\ ParseIdle
    /\ RunIdle
    /\ StageIdle

Register ==
    \E name \in RegNames, hash \in RegHashes :
        LET r == register(registry, name, hash) IN
        /\ nops < MaxOps
        /\ registry' = r.reg
        /\ holders' = IF r.err = NoError /\ hash \notin DOMAIN holders
                      THEN Put(holders, hash, name) ELSE holders
        /\ last' = Op("register", name, hash, 0, <<>>, <<>>, registry, r.err, FALSE)
        /\ nops' = nops + 1
        /\ UNCHANGED <<parseVars, runVars, stageVars>>

AddName ==
    \E name \in RegNames, arity \in 0..2 :
        /\ nops < MaxOps
        /\ registry' = add_name(registry, name, arity)
        /\ last' = Op("add_name", name, 0, arity, <<>>, <<>>, registry, NoError, FALSE)
        /\ nops' = nops + 1
        /\ UNCHANGED <<parseVars, runVars, stageVars>>
        /\ UNCHANGED holders

AddSignature ==
    \E name \in RegNames, sig \in RegSigs :
        /\ nops < MaxOps
        /\ registry' = add_signature(registry, name, sig)
        /\ last' = Op("add_signature", name, 0, 0, <<Promise(name, sig)>>, <<>>,
                      registry, NoError, FALSE)
        /\ nops' = nops + 1
        /\ UNCHANGED <<parseVars, runVars, stageVars>>
        /\ UNCHANGED holders

MarkImplemented ==
    \E name \in RegNames :
        /\ nops < MaxOps
        /\ registry' = mark_implemented(registry, name)
        /\ last' = Op("mark_implemented", name, 0, 0, <<>>, <<>>, registry, NoError, FALSE)
        /\ nops' = nops + 1
        /\ UNCHANGED <<parseVars, runVars, stageVars>>
        /\ UNCHANGED holders

AddShape ==
    \E name \in RegShapeNames, behaviors \in RegPromiseLists :
        /\ nops < MaxOps
        /\ registry' = add_shape(registry, name, behaviors)
        /\ last' = Op("add_shape", name, 0, 0, behaviors, <<>>, registry, NoError, FALSE)
        /\ nops' = nops + 1
        /\ UNCHANGED <<parseVars, runVars, stageVars>>
        /\ UNCHANGED holders

AddSuite ==
    \E name \in RegSuiteNames, sigs \in RegPromiseLists, shapes \in RegSuiteShapeLists :
        /\ nops < MaxOps
        /\ registry' = add_suite(registry, name, sigs, shapes)
        /\ last' = Op("add_suite", name, 0, 0, sigs, shapes, registry, NoError, FALSE)
        /\ nops' = nops + 1
        /\ UNCHANGED <<parseVars, runVars, stageVars>>
        /\ UNCHANGED holders

Satisfies ==
    \E shape \in RegShapeNames \cup {"Unknown"} :
        /\ nops < MaxOps
        /\ last' = Op("satisfies", shape, 0, 0, <<>>, <<>>, registry, NoError,
                      satisfies(registry, "Widget", shape))
        /\ nops' = nops + 1
        /\ UNCHANGED <<parseVars, runVars, stageVars>>
        /\ UNCHANGED <<registry, holders>>

NextReg ==
    \/ Register
    \/ AddName
    \/ AddSignature
    \/ MarkImplemented
    \/ AddShape
    \/ AddSuite
    \/ Satisfies

SpecReg == InitReg /\ [][NextReg]_vars

---------------------------------------------------------------------------
(* SpecParse: one Parser over a token buffer, its entry points called in   *)
(* any order until one returns Err or the buffer is used up                *)

\* verbs per chain
MaxVerbs == 2

\* Session::new plus what a script's pass 1 may have added: the keyword verb
\* scales-by with two parameters and a behaviour without parameters
UserRegistry ==
    add_signature(add_name(SessionRegistry, "scales-by", 2),
                  "answer", BehaviorSignature(<<>>, I64T))

RegTags == {"none", "session", "user"}
RegOf(tag) ==
    IF tag = "none" THEN <<>>
    ELSE IF tag = "session" THEN <<SessionRegistry>>
    ELSE <<UserRegistry>>

\* primaries: a literal, an identifier, a parenthesised expression, a bracketed
\* list, and the three that end in an expression of their own: if, emit, let
Primaries ==
    [lit |-> <<IntLit(5)>>,
     id |-> <<Ident("x")>>,
     paren |-> <<Tok("LParen"), IntLit(1), Ident("added-to"), IntLit(2), Tok("RParen")>>,
     bracket |-> <<Tok("LBracket"), IntLit(3), Tok("RBracket")>>,
     ifte |-> <<Tok("If"), Ident("c"), Tok("Then"), IntLit(1), Tok("Else"), IntLit(2)>>,
     emit |-> <<Tok("Emit"), IntLit(4)>>,
     let |-> <<Tok("Let"), Ident("y"), Tok("Is"), Tok("An"), Tok("Integer"), IntLit(6)>>]
ClosedPrimaries == {"lit", "id", "paren", "bracket"}

\* verbs of arity 2 in Session::new: one lexed as an identifier, one as a keyword
ChainVerbs == {Ident("added-to"), Tok("DecreasedBy")}
VerbLexeme(tok) == IF tok.t = "Identifier" THEN tok.s ELSE KeywordLexeme[tok.t]

RECURSIVE ChainTokens(_, _)
ChainTokens(segs, verbs) ==
    IF verbs = <<>> THEN Primaries[segs[1]]
    ELSE ChainTokens(SubSeq(segs, 1, Len(segs) - 1), SubSeq(verbs, 1, Len(verbs) - 1))
            \o <<verbs[Len(verbs)]>> \o Primaries[segs[Len(segs)]]

\* a chain of n verbs between n + 1 primaries, parsed without a Registry or
\* with the one of Session::new
ChainInput(segs, verbs, reg) == Input("chain", segs, verbs, "", EOFTok, "", reg)
ChainRegs == {"none", "session"}

\* tokens in primary position: identifiers and keyword verbs
PrefixTokens ==
    {Ident("added-to"), Ident("is-zero"), Ident("answer"), Ident("unknown"),
     Tok("DecreasedBy"), Tok("ScalesBy"), Tok("Matches")}
PrefixInputs ==
    { Input("prefix", <<>>, <<>>, "", tok, "", reg) :
        tok \in PrefixTokens, reg \in RegTags }

\* verbs after a subject: registered with arity 0, 1, 2 and 3, lexed as an
\* identifier or as a keyword
SubjectVerbs ==
    {Ident("answer"), Ident("is-zero"), Ident("added-to"), Ident("set-char"),
     Tok("DecreasedBy"), Tok("ScalesBy")}
SubjectInputs ==
    { Input("subject", <<>>, <<>>, "", tok, "", reg) :
        tok \in SubjectVerbs, reg \in {"session", "user"} }

\* an integer literal on its own: every value lex_number can hand over, which
\* is every i128 from 0 on (a `-` is never part of a number)
LiteralInputs ==
    { Input("literal", <<>>, <<>>, "", IntLit(n), "", "none") :
        n \in 0..(Pow2(I128Bits - 1) - 1) }

\* the binding positions and the constructs around them
Binders == {"let", "derivation", "parameter", "diminishing", "module"}
NameTokens ==
    {Ident("added-to"), Ident("answer"), Ident("fresh"), Tok("DecreasedBy"),
     Tok("ScalesBy")}
BinderTokens(binder, name) ==
    IF binder = "let"
    THEN <<Tok("Let"), name, Tok("Is"), Tok("An"), Tok("Integer"), IntLit(1)>>
    ELSE IF binder = "derivation"
    THEN <<Tok("Derivation"), Tok("Colon"), name, Tok("DerivesFrom"), IntLit(1)>>
    ELSE IF binder = "parameter"
    THEN <<Tok("TheBehaviorCalled"), Ident("f"), Tok("Takes"), Tok("Colon"), Tok("An"),
           Tok("Integer"), Tok("Called"), name, Tok("Delivers"), Tok("An"),
           Tok("Integer"), Tok("As"), Tok("Colon"), IntLit(1)>>
    ELSE IF binder = "diminishing"
    THEN <<Tok("TheBehaviorCalled"), Ident("f"), Tok("Takes"), Tok("Colon"), Tok("An"),
           Tok("Integer"), Tok("Called"), Ident("n"), Tok("Delivers"), Tok("An"),
           Tok("Integer"), Tok("WithDiminishing"), Tok("Colon"), name, Tok("As"),
           Tok("Colon"), IntLit(1)>>
    ELSE <<Tok("TheModuleCalled"), name, Tok("WithConcern"), Tok("Colon"),
           Ident("arithmetic")>>
BinderInputs ==
    { Input("binder", <<>>, <<>>, binder, name, "", reg) :
        binder \in Binders, name \in NameTokens, reg \in RegTags }

UnitInputs ==
    { Input("unit", <<>>, <<>>, "", EOFTok, unit, reg) :
        unit \in DOMAIN Units, reg \in RegTags }

\* bodies of a behaviour: emit and broadcasts at each place an expression can
\* stand, and an if/then/else with each kind of branch tail
Bodies ==
    [lit |-> <<IntLit(5)>>,
     nothing |-> <<Tok("Nothing")>>,
     emit |-> <<Tok("Emit"), IntLit(4)>>,
     broadcasts |-> <<Tok("Broadcasts"), IntLit(4)>>,
     block_emit |-> <<IntLit(5), Tok("Emit"), IntLit(4)>>,
     let_value |-> <<Tok("Let"), Ident("y"), Tok("Is"), Tok("An"), Tok("Integer"),
                     Tok("Emit"), IntLit(4)>>,
     let_body |-> <<Tok("Let"), Ident("y"), Tok("Is"), Tok("An"), Tok("Integer"),
                    IntLit(6), Tok("Broadcasts"), Ident("y")>>,
     derivation_body |-> <<Tok("Derivation"), Tok("Colon"), Ident("y"),
                           Tok("DerivesFrom"), IntLit(6), Tok("Emit"), Ident("y")>>,
     if_condition |-> <<Tok("If"), Tok("Emit"), IntLit(1), Tok("Then"), IntLit(1),
                        Tok("Else"), IntLit(2)>>,
     tuple |-> <<Tok("LParen"), IntLit(1), Tok("Colon"), Tok("Emit"), IntLit(2),
                 Tok("RParen")>>,
     array |-> <<Tok("LBracket"), Tok("Emit"), IntLit(3), Tok("RBracket")>>,
     argument |-> <<Ident("x"), Ident("added-to"), Tok("Emit"), IntLit(1)>>,
     if_nothing |-> <<Tok("If"), Ident("c"), Tok("Then"), Tok("Nothing"), Tok("Else"),
                      Tok("Nothing")>>,
     if_emit |-> <<Tok("If"), Ident("c"), Tok("Then"), Tok("Emit"), IntLit(1),
                   Tok("Else"), Tok("Broadcasts"), IntLit(2)>>,
     if_literal |-> <<Tok("If"), Ident("c"), Tok("Then"), IntLit(1), Tok("Else"),
                      IntLit(2)>>,
     if_then_literal |-> <<Tok("If"), Ident("c"), Tok("Then"), IntLit(1), Tok("Else"),
                           Tok("Nothing")>>,
     if_else_literal |-> <<Tok("If"), Ident("c"), Tok("Then"), Tok("Nothing"),
                           Tok("Else"), TextLit("done")>>,
     block_if_literal |-> <<Ident("x"), Tok("If"), Ident("c"), Tok("Then"), IntLit(1),
                            Tok("Else"), IntLit(2)>>]
IfBodies ==
    {"if_nothing", "if_emit", "if_literal", "if_then_literal", "if_else_literal",
     "block_if_literal"}

\* a behaviour without parameters: pure or effect, delivering nothing or an integer
Behavior(is_effect, delivers, body) ==
    [is_effect |-> is_effect, delivers |-> delivers, body |-> body]
BodyTokens(b) ==
    <<Tok(IF b.is_effect THEN "TheEffectBehaviorCalled" ELSE "TheBehaviorCalled"),
      Ident("act"), Tok("Takes"), Tok("Colon"), Tok("Nothing"), Tok("Delivers")>>
        \o (IF b.delivers = "nothing" THEN <<Tok("Nothing")>> ELSE AnInteger)
        \o <<Tok("As"), Tok("Colon")>> \o Bodies[b.body]
BehaviorChoices ==
    { Behavior(e, d, body) :
        e \in BOOLEAN, d \in {"nothing", "integer"}, body \in DOMAIN Bodies }
RECURSIVE BehaviorsTokens(_)
BehaviorsTokens(bs) ==
    IF bs = <<>> THEN <<>> ELSE BodyTokens(Head(bs)) \o BehaviorsTokens(Tail(bs))
\* one behaviour, or an effect behaviour that emits followed by one behaviour
BodyInputs ==
    { Input("body", bs, <<>>, "", EOFTok, "", reg) :
        bs \in { <<b>> : b \in BehaviorChoices }
                 \cup { <<Behavior(TRUE, "nothing", "emit"), b>> : b \in BehaviorChoices },
        reg \in ChainRegs }

\* expression nesting: parentheses, emit, if conditions and let bodies around a
\* literal, from the outside in
MaxNest == 17
Wrappers == {"paren", "emit", "if", "let"}
RECURSIVE NestTokens(_)
NestTokens(segs) ==
    IF segs = <<>> THEN <<IntLit(1)>>
    ELSE IF Head(segs) = "paren"
    THEN <<Tok("LParen")>> \o NestTokens(Tail(segs)) \o <<Tok("RParen")>>
    ELSE IF Head(segs) = "emit" THEN <<Tok("Emit")>> \o NestTokens(Tail(segs))
    ELSE IF Head(segs) = "if"
    THEN <<Tok("If")>> \o NestTokens(Tail(segs))
            \o <<Tok("Then"), IntLit(1), Tok("Else"), IntLit(2)>>
    ELSE <<Tok("Let"), Ident("y"), Tok("Is"), Tok("An"), Tok("Integer"), IntLit(6)>>
            \o NestTokens(Tail(segs))
\* n wrappers of one kind, one of them replaced by another kind
NestSegs(n, kind, at, other) == [i \in 1..n |-> IF i = at THEN other ELSE kind]
NestInput(segs) == Input("nest", segs, <<>>, "", EOFTok, "", "none")

ParseInputs ==
    PrefixInputs \cup SubjectInputs \cup LiteralInputs \cup BinderInputs
        \cup UnitInputs \cup BodyInputs

TokensOf(input) ==
    IF input.form = "chain" THEN ChainTokens(input.segs, input.verbs)
    ELSE IF input.form = "prefix" THEN <<input.name, IntLit(5), IntLit(2)>>
    ELSE IF input.form = "literal" THEN <<input.name>>
    ELSE IF input.form = "subject" THEN <<IntLit(7), input.name, IntLit(5), IntLit(2)>>
    ELSE IF input.form = "binder" THEN BinderTokens(input.binder, input.name)
    ELSE IF input.form = "body" THEN BehaviorsTokens(input.segs)
    ELSE IF input.form = "nest" THEN NestTokens(input.segs)
    ELSE Units[input.unit]

\* Parser::new(tokens) or Parser::with_registry(tokens, registry)
InitParse ==
    /\ \/ \E input \in ParseInputs : pin = input
       \/ \E n \in 0..MaxVerbs :
             \E segs \in [1..(n + 1) -> DOMAIN Primaries], verbs \in [1..n -> ChainVerbs],
                reg \in ChainRegs :
                 pin = ChainInput(segs, verbs, reg)
       \/ \E n \in 0..MaxNest, kind \in {"paren", "emit", "if"}, other \in Wrappers :
             \E at \in {0, 1, n \div 2, n} :
                 pin = NestInput(NestSegs(n, kind, at, other))
    /\ tokens = TokensOf(pin)
    /\ preg = RegOf(pin.reg)
    /\ parser = ParserNew
    /\ pres = NoCall
    /\ registry = RegistryNew
    /\ RegIdle
    /\ RunIdle
    /\ StageIdle

\* a caller drops the Parser when a call returns Err (lib.rs:106, 147)
CanCall == pres.ok /\ ~is_eof(tokens, parser)

ParseExpression ==
    LET r == parse_expression(tokens, preg, parser) IN
    /\ CanCall
    /\ parser' = r.p
    /\ pres' = Call("parse_expression", parser.pos, r)
    /\ UNCHANGED <<tokens, preg, pin, regVars, runVars, stageVars>>

ParseDiscourse ==
    LET r == parse_discourse(tokens, preg, parser) IN
    /\ CanCall
    /\ parser' = r.p
    /\ pres' = Call("parse_discourse", parser.pos, r)
    /\ UNCHANGED <<tokens, preg, pin, regVars, runVars, stageVars>>

ParseStructuralDiscourse ==
    LET r == parse_structural_discourse(tokens, preg, parser) IN
    /\ CanCall
    /\ parser' = r.p
    /\ pres' = Call("parse_structural_discourse", parser.pos, r)
    /\ UNCHANGED <<tokens, preg, pin, regVars, runVars, stageVars>>

NextParse ==
    \/ ParseExpression
    \/ ParseDiscourse
    \/ ParseStructuralDiscourse

SpecParse == InitParse /\ [][NextParse]_vars

---------------------------------------------------------------------------
(* The validators (linguistics.rs, interpreter.rs) and the semantic hash   *)

\* type names whose first character, lowercased, is one of a e i o u
VowelInitial ==
    {"integer", "i8", "i16", "i32", "i64", "i128", "u8", "u16", "u32", "u64", "u128",
     "array", "Addable"}
is_vowel(type_name) == type_name \in VowelInitial

validate_article(article, type_name) ==
    IF article = "An" /\ ~is_vowel(type_name)
    THEN ParseError("LINGUISTIC VIOLATION: The discourse demands 'a' before a consonant.")
    ELSE IF article = "A" /\ is_vowel(type_name)
    THEN ParseError("LINGUISTIC VIOLATION: The discourse demands 'an' before a vowel.")
    ELSE NoError

\* the loop of validate over header.takes: the first Err ends it
RECURSIVE ValidateArticles(_)
ValidateArticles(takes) ==
    IF takes = <<>> THEN NoError
    ELSE IF validate_article(Head(takes).type_info.article,
                             Head(takes).type_info.display_name) # NoError
    THEN validate_article(Head(takes).type_info.article,
                          Head(takes).type_info.display_name)
    ELSE ValidateArticles(Tail(takes))

LinguisticValidator_validate(d) ==
    IF d.kind = "Behavior" THEN ValidateArticles(d.header.takes) ELSE NoError

\* ConcernValidator::check: the validator after the call and the Result
\* mutant: a later Module declaration replaces the recorded one
ConcernValidator_check_Replace(cv, d) ==
    IF d.kind = "Module"
    THEN [cv |-> [module_name |-> <<d.name>>, module_concern |-> <<d.concern>>],
          err |-> NoError]
    ELSE [cv |-> cv, err |-> NoError]

ConcernValidator_check(cv, d) ==
    IF d.kind = "Module"
    THEN IF cv.module_name # <<>>
         THEN [cv |-> cv,
               err |-> ParseError("Concern Error (SRP Violation): Module cannot be declared. Discourse already has a module.")]
         ELSE [cv |-> [module_name |-> <<d.name>>, module_concern |-> <<d.concern>>],
               err |-> NoError]
    ELSE [cv |-> cv, err |-> NoError]

\* visit_let: a name bound to `<identifier> decreased-by ..` is recorded as
\* smaller than that identifier
LetSmaller(e, smaller_vars) ==
    IF /\ e.args[1].k = "BehaviorCall"
       /\ e.args[1].s = "decreased-by"
       /\ Len(e.args[1].args) >= 1
       /\ e.args[1].args[1].k = "Identifier"
    THEN Put(smaller_vars, e.s, e.args[1].args[1].s)
    ELSE smaller_vars

\* the proof a recursive call has to carry: its first argument is an
\* identifier recorded as smaller than the diminishing input
RecursionValid(header, args, smaller_vars) ==
    /\ Len(args) >= 1
    /\ args[1].k = "Identifier"
    /\ args[1].s \in DOMAIN smaller_vars
    /\ smaller_vars[args[1].s] = header.diminishing[1]

\* TerminationChecker as a Visitor: the Result carries smaller_vars in the
\* place of the parser
RECURSIVE TerminationVisit(_, _, _)
RECURSIVE TerminationVisitAll(_, _, _)
TerminationVisitAll(header, exprs, smaller_vars) ==
    IF exprs = <<>> THEN Ok(smaller_vars, <<>>)
    ELSE Try(TerminationVisit(header, Head(exprs), smaller_vars), LAMBDA r :
             TerminationVisitAll(header, Tail(exprs), r.p))

visit_let(header, e, smaller_vars) ==
    TerminationVisitAll(header, e.args, LetSmaller(e, smaller_vars))

visit_behavior_call(header, e, smaller_vars) ==
    IF e.s = header.name /\ ~header.skip_termination_check /\ header.diminishing = <<>>
    THEN Fail(smaller_vars, "Termination Error: Recursive call requires a 'with diminishing' clause in the behavior header.")
    ELSE IF /\ e.s = header.name
            /\ ~header.skip_termination_check
            /\ ~RecursionValid(header, e.args, smaller_vars)
    THEN Fail(smaller_vars, "Termination Error: Recursive call must pass an argument that is strictly smaller than the diminishing input.")
    ELSE TerminationVisitAll(header, e.args, smaller_vars)

TerminationVisit(header, e, smaller_vars) ==
    IF e.k = "Derivation" THEN visit_let(header, e, smaller_vars)
    ELSE IF e.k = "BehaviorCall" THEN visit_behavior_call(header, e, smaller_vars)
    ELSE TerminationVisitAll(header, e.args, smaller_vars)

TerminationChecker_check(d) ==
    IF d.kind = "Behavior" THEN TerminationVisit(d.header, d.body, <<>>).err
    ELSE NoError

\* the loop of ShapeValidator::check over the parameters
RECURSIVE ShapeArguments(_, _)
ShapeArguments(reg, takes) ==
    IF takes = <<>> THEN NoError
    ELSE IF /\ Head(takes).type_info.via_role # <<>>
            /\ ~satisfies(reg, Head(takes).type_info.display_name,
                          Head(takes).type_info.via_role[1])
    THEN ParseError("Shape Error: Type does not satisfy the role. Required behaviors are missing.")
    ELSE ShapeArguments(reg, Tail(takes))

ShapeValidator_check(reg, d) ==
    IF d.kind = "Behavior" THEN ShapeArguments(reg, d.header.takes) ELSE NoError

\* what Expression's Hash impl feeds the hasher: the variant and its fields,
\* the type_info of a derivation left out
RECURSIVE HashFeed(_)
HashFeed(e) ==
    [k |-> e.k, s |-> e.s, n |-> e.n, m |-> e.m,
     args |-> [i \in 1..Len(e.args) |-> HashFeed(e.args[i])]]

\* the SemanticHash of a behaviour, modelled by what the hasher is fed: the
\* body and then the signature (SipHash is taken to be free of collisions)
compute_behavior_hash(body, signature) == <<HashFeed(body), signature>>

---------------------------------------------------------------------------
(* The evaluator (interpreter.rs)                                          *)

\* a Value: variant k, integer payload n, String payload s
Value(k, n, s) == [k |-> k, n |-> n, s |-> s]
Void == Value("Void", 0, "")
I64Value(n) == Value("I64", n, "")
RuntimeError(message) == OnuError("RuntimeError", message, "", "")

\* a Result<Value, OnuError> together with the Interpreter after the call
EvalOk(it, v) == [ok |-> TRUE, err |-> NoError, it |-> it, v |-> v]
EvalErr(it, err) == [ok |-> FALSE, err |-> err, it |-> it, v |-> Void]
EvalTry(r, K(_)) == IF r.ok THEN K(r) ELSE r

\* Value::is_truthy, for the variants the bodies below produce
is_truthy(v) ==
    CASE v.k \in {"Boolean", "I64"} -> v.n # 0
      [] v.k = "Void" -> FALSE
      [] OTHER -> TRUE

\* the built-ins the bodies below call, of those default_builtins holds
Builtins == {"added-to", "decreased-by"}

\* math::bin_op on integer Values: the result is narrowed to I64
bin_op(name, args) ==
    IF Len(args) < 2
    THEN [ok |-> FALSE, v |-> Void, err |-> RuntimeError("requires two arguments")]
    ELSE IF args[1].k = "I64" /\ args[2].k = "I64"
    THEN [ok |-> TRUE, err |-> NoError,
          v |-> I64Value(AsI64(IF name = "added-to" THEN args[1].n + args[2].n
                               ELSE args[1].n - args[2].n))]
    ELSE [ok |-> FALSE, v |-> Void,
          err |-> RuntimeError("Type Mismatch: requires consistent numeric types")]

\* an entry of trace: the store when the call began (before), when it returned
\* (after), and for a call of a user behaviour the store its body began with
TraceEntry(op, name, before, after, seen, ok) ==
    [op |-> op, name |-> name, before |-> before, after |-> after, seen |-> seen,
     ok |-> ok]
Recorded(it, entry) == [it EXCEPT !.trace = Append(@, entry)]

\* the call op(name) began with the Interpreter it and returned r: the entry
\* of the call is appended to the trace of the Interpreter it returned with
Traced(op, name, it, seen, r) ==
    [r EXCEPT !.it = Recorded(@, TraceEntry(op, name, it.variables, r.it.variables,
                                            seen, r.ok))]

\* the parameter binding loop of call_behavior: parameter i is inserted with
\* args[i] where there is one; a later parameter of the same name overwrites
BindParameters(variables, takes, args) ==
    LET bound == { i \in DOMAIN takes : i <= Len(args) }
        names == { takes[i].name : i \in bound }
    IN  [name \in DOMAIN variables \cup names |->
            IF name \in names
            THEN args[CHOOSE i \in bound :
                         /\ takes[i].name = name
                         /\ \A j \in bound : takes[j].name = name => j <= i]
            ELSE variables[name]]

RECURSIVE evaluate_expression(_, _, _)
RECURSIVE EvalEach(_, _, _, _)

\* `for e in exprs { values.push(self.visit_expression(e)?) }`
EvalEach(it, behaviors, exprs, values) ==
    IF exprs = <<>> THEN EvalOk(it, values)
    ELSE EvalTry(evaluate_expression(it, behaviors, Head(exprs)), LAMBDA r :
             EvalEach(r.it, behaviors, Tail(exprs), Append(values, r.v)))

\* mutant: the binding of the name is left in the store
evaluator_visit_let_Keep(it, behaviors, expr) ==
    LET rv == evaluate_expression(it, behaviors, expr.args[1])
    IN  IF ~rv.ok THEN Traced("visit_let", expr.s, it, <<>>, rv)
        ELSE Traced("visit_let", expr.s, it, <<>>,
                    evaluate_expression([rv.it EXCEPT !.variables = Put(@, expr.s, rv.v)],
                                        behaviors, expr.args[2]))

\* EvaluatorVisitor::visit_let
evaluator_visit_let(it, behaviors, expr) ==
    LET rv == evaluate_expression(it, behaviors, expr.args[1])
    IN  IF ~rv.ok THEN Traced("visit_let", expr.s, it, <<>>, rv)
        ELSE LET old_val == Lookup(rv.it.variables, expr.s)
                 res == evaluate_expression(
                            [rv.it EXCEPT !.variables = Put(@, expr.s, rv.v)],
                            behaviors, expr.args[2])
             IN  Traced("visit_let", expr.s, it, <<>>,
                        [res EXCEPT !.it.variables =
                            IF old_val # <<>> THEN Put(@, expr.s, old_val[1])
                            ELSE Remove(@, expr.s)])

\* Interpreter::call_behavior
call_behavior(it, behaviors, name, args) ==
    IF name \in Builtins
    THEN LET r == bin_op(name, args)
         IN  Traced("call_behavior", name, it, <<>>,
                    [ok |-> r.ok, err |-> r.err, it |-> it, v |-> r.v])
    ELSE IF name \in DOMAIN behaviors
    THEN LET old_variables == it.variables
             cleared == <<>>
             bound == BindParameters(cleared, behaviors[name].header.takes, args)
             last_val == evaluate_expression([it EXCEPT !.variables = bound], behaviors,
                                             behaviors[name].body)
         IN  Traced("call_behavior", name, it, <<bound>>,
                    [last_val EXCEPT !.it.variables = old_variables])
    ELSE Traced("call_behavior", name, it, <<>>,
                EvalErr(it, RuntimeError("Unknown behavior")))

\* Visitor::visit_expression with the arms of EvaluatorVisitor; a Derivation
\* of the parser is the Let of the visitor, and Broadcasts, for which the
\* visitor has no arm, is taken as the Emit it is an alias of
evaluate_expression(it, behaviors, expr) ==
    CASE expr.k = "I64" -> EvalOk(it, I64Value(expr.n))
      [] expr.k = "Boolean" -> EvalOk(it, Value("Boolean", expr.n, ""))
      [] expr.k \in {"Text", "F64"} -> EvalOk(it, Value(expr.k, 0, expr.s))
      [] expr.k = "Identifier" ->
           EvalOk(it, IF expr.s \in DOMAIN it.variables THEN it.variables[expr.s]
                      ELSE Void)
      [] expr.k = "Nothing" -> EvalOk(it, Void)
      [] expr.k \in {"Emit", "Broadcasts"} ->
           EvalTry(evaluate_expression(it, behaviors, expr.args[1]), LAMBDA r :
               EvalOk([r.it EXCEPT !.emitted = Append(@, r.v)], Void))
      [] expr.k = "Derivation" -> evaluator_visit_let(it, behaviors, expr)
      [] expr.k = "BehaviorCall" ->
           EvalTry(EvalEach(it, behaviors, expr.args, <<>>), LAMBDA r :
               call_behavior(r.it, behaviors, expr.s, r.v))
      [] expr.k = "If" ->
           EvalTry(evaluate_expression(it, behaviors, expr.args[1]), LAMBDA rc :
               evaluate_expression(rc.it, behaviors,
                                IF is_truthy(rc.v) THEN expr.args[2] ELSE expr.args[3]))
      [] expr.k = "Block" ->
           EvalTry(EvalEach(it, behaviors, expr.args, <<>>), LAMBDA r :
               EvalOk(r.it, IF r.v = <<>> THEN Void ELSE r.v[Len(r.v)]))
      [] OTHER ->
           EvalTry(EvalEach(it, behaviors, expr.args, <<>>), LAMBDA r :
               EvalOk(r.it, Value(expr.k, 0, "")))

\* Interpreter::execute_discourse
execute_discourse(it, behaviors, d) ==
    IF d.kind = "Behavior" THEN evaluate_expression(it, behaviors, d.body)
    ELSE EvalOk(it, Void)

---------------------------------------------------------------------------
(* Spec: Session::new, then one run_script over a source put together from *)
(* the discourse units above                                               *)

\* discourse units per source
MaxUnits == 2

\* the units that spell one body in several ways, by body
Spellings == {{"shout", "yell"}, {"derive", "annotated", "bind"}}

\* the sources: any units but those, and two spellings of one body
Scripts ==
    UNION { [1..n -> DOMAIN Units \ UNION Spellings] : n \in 0..MaxUnits }
        \cup UNION { [1..2 -> family] : family \in Spellings }

\* the units of the sources a Session is given one after another
SessionUnits == {"module", "module2", "double", "twice"}
SessionScripts == UNION { [1..n -> SessionUnits] : n \in 0..MaxUnits }

\* run_script calls per Session
MaxRuns == 2

\* what ends the token vector early: nothing ("none"); a lone `-`, at which
\* next_token returns None (lexer.rs:160-168), standing after the last token of
\* the units ("end") or in the place of their last token ("inside"); a text
\* literal that is not closed, standing in the place of the last token
\* ("text"), which lex_string returns as a TextLiteral holding the rest of the
\* source (lexer.rs:427-438)
Stops == {"none", "end", "inside", "text"}

\* the lexer loop of run_script, `while let Some(t) = lexer.next_token()`:
\* the tokens up to the place next_token first returns None
Lexed(toks, stop) ==
    CASE stop = "inside" -> SubSeq(toks, 1, Len(toks) - 1)
      [] stop = "text" -> Append(SubSeq(toks, 1, Len(toks) - 1), TextLit("rest"))
      [] OTHER -> toks

\* the token vector of a source put together from units
RECURSIVE ScriptTokens(_)
ScriptTokens(names) ==
    IF names = <<>> THEN <<>> ELSE Units[Head(names)] \o ScriptTokens(Tail(names))

\* &tokens[current_pos..]
Slice(toks, pos) == SubSeq(toks, pos + 1, Len(toks))

\* mutant: the parameters are left out of the signature
SignatureOf_NoInputs(header) == BehaviorSignature(<<>>, header.delivers)

\* the signature run_script builds from a header
SignatureOf(header) ==
    BehaviorSignature([i \in 1..Len(header.takes) |-> header.takes[i].type_info.onu_type],
                      header.delivers)

\* the loop of pass 1 over the behaviours a shape promises
RECURSIVE PromisedSignatures(_, _)
PromisedSignatures(reg, headers) ==
    IF headers = <<>> THEN reg
    ELSE PromisedSignatures(
            add_signature(reg, Head(headers).name, SignatureOf(Head(headers))),
            Tail(headers))

\* the `match discourse` of pass 1
StructuralRegistration(reg, d) ==
    IF d.kind = "Behavior"
    THEN add_signature(reg, d.header.name, SignatureOf(d.header))
    ELSE IF d.kind = "Shape"
    THEN add_shape(PromisedSignatures(reg, d.behaviors), d.name,
                   [i \in 1..Len(d.behaviors) |->
                        Promise(d.behaviors[i].name, SignatureOf(d.behaviors[i]))])
    ELSE reg

\* the DRY step: get_signature(..).unwrap(), compute_behavior_hash, register
DryRegistration(reg, d) ==
    IF HasSignature(reg, d.header.name)
    THEN register(reg, d.header.name,
                  compute_behavior_hash(d.body, get_signature(reg, d.header.name)))
    ELSE [reg |-> reg,
          err |-> OnuError("Panic", "called Option::unwrap() on a None value", "", "")]

\* the map_err prefixes of run_script
ErrorPrefix ==
    [structural |-> "Structural Parse Error", linguistic |-> "Linguistic Error",
     semantic |-> "Semantic Parse Error", concern |-> "Semantic Analysis Error",
     termination |-> "Semantic Analysis Error", shape |-> "Semantic Analysis Error",
     dry |-> "DRY Error"]

\* Err(format!("<prefix>: {}", e)), or the panic of unwrap
Failure(check, err) ==
    IF err.kind = "Panic" THEN Outcome("Panic", "", err)
    ELSE Outcome("Err", ErrorPrefix[check], err)

\* the mutant of NextCheck: a failed check does not end the run
NextCheck_Continue(check, ok, kind) ==
    IF check = "structural" THEN "linguistic"
    ELSE IF check = "linguistic" THEN "pass1"
    ELSE IF check = "semantic" THEN "concern"
    ELSE IF check = "concern" THEN (IF kind = "Behavior" THEN "termination" ELSE "pass2")
    ELSE IF check = "termination" THEN "shape"
    ELSE IF check = "shape" THEN "dry"
    ELSE "pass2"

\* the control flow of run_script: where the run goes after a parse or check;
\* the ? operator and the explicit return leave the function on Err
NextCheck(check, ok, kind) ==
    IF ~ok THEN "done"
    ELSE IF check = "structural" THEN "linguistic"
    ELSE IF check = "linguistic" THEN "pass1"
    ELSE IF check = "semantic" THEN "concern"
    ELSE IF check = "concern" THEN (IF kind = "Behavior" THEN "termination" ELSE "pass2")
    ELSE IF check = "termination" THEN "shape"
    ELSE IF check = "shape" THEN "dry"
    ELSE "pass2"

\* an entry of log: the parse or check, the position in tokens the unit it ran
\* on starts at, and whether it returned Ok
LogEntry(check, start, ok) == [check |-> check, start |-> start, ok |-> ok]
UnitStart == log[Len(log)].start

\* Session::new
Init ==
    /\ registry = SessionRegistry
    /\ RegIdle
    /\ ParseIdle
    /\ RunIdle
    /\ StageIdle

\* the start of run_script: the lexer loop
StartRun(source, stop) ==
    /\ script' = source
    /\ tokens' = Lexed(ScriptTokens(source), stop)
    /\ session' = [session EXCEPT !.runs = @ + 1, !.units = @ + Len(source),
                                   !.stop = stop]
    /\ current_pos' = 0
    /\ pc' = "pass1"
    /\ outcome' = NoOutcome
    /\ discourse' = <<>>
    /\ log' = <<>>
    /\ declared' = <<>>
    /\ pass1_end' = <<>>
    /\ UNCHANGED <<regVars, stageVars, preg, parser, pres, pin, concern_validator,
                   behaviors_to_run, interpreter_behaviors, accepted, unit_pre>>

\* run_script is called on a new Session
RunScript ==
    /\ pc = "idle"
    /\ \E source \in Scripts : StartRun(source, "none")

\* run_script is called on a Session, new or used, that has not panicked; the
\* lexer may stop before the end of the source
RunSessionScript ==
    /\ pc \in {"idle", "done"}
    /\ outcome.status # "Panic"
    /\ session.runs < MaxRuns
    /\ \E source \in SessionScripts, stop \in Stops :
          /\ Len(source) <= MaxUnits - session.units
          /\ stop \in {"inside", "text"} => source # <<>>
          /\ StartRun(source, stop)

\* pass 1, first half of an iteration: the structural parse of the next unit
StructuralParse ==
    LET r == parse_structural_discourse(Slice(tokens, current_pos), <<>>, ParserNew) IN
    /\ pc = "pass1"
    /\ current_pos < Len(tokens)
    /\ discourse' = IF r.ok THEN <<r.v>> ELSE <<>>
    /\ current_pos' = IF r.ok THEN current_pos + r.p.pos ELSE current_pos
    /\ log' = Append(log, LogEntry("structural", current_pos, r.ok))
    /\ outcome' = IF r.ok THEN outcome ELSE Failure("structural", r.err)
    /\ pc' = NextCheck("structural", r.ok, "")
    /\ unit_pre' = registry
    /\ UNCHANGED <<regVars, parseVars, stageVars, concern_validator, behaviors_to_run, interpreter_behaviors,
                   script, session, accepted, declared, pass1_end>>

\* pass 1, second half: the article check, then the signatures of the unit
LinguisticCheck ==
    LET err == LinguisticValidator_validate(discourse[1]) IN
    /\ pc = "linguistic"
    /\ log' = Append(log, LogEntry("linguistic", UnitStart, err = NoError))
    /\ outcome' = IF err = NoError THEN outcome ELSE Failure("linguistic", err)
    /\ registry' = IF err = NoError THEN StructuralRegistration(registry, discourse[1])
                   ELSE registry
    /\ declared' = IF err = NoError /\ discourse[1].kind = "Behavior"
                   THEN Append(declared, [name |-> discourse[1].header.name,
                                          parameters |-> Len(discourse[1].header.takes),
                                          start |-> UnitStart,
                                          header |-> discourse[1].header])
                   ELSE declared
    /\ pc' = NextCheck("linguistic", err = NoError, discourse[1].kind)
    /\ UNCHANGED <<holders, last, nops, parseVars, stageVars, current_pos, discourse,
                   concern_validator, behaviors_to_run, interpreter_behaviors, script, session, accepted,
                   unit_pre, pass1_end>>

\* the loop of pass 1 is left and pass 2 set up
BeginPass2 ==
    /\ pc = "pass1"
    /\ current_pos >= Len(tokens)
    /\ behaviors_to_run' = <<>>
    /\ concern_validator' = ConcernValidatorNew
    /\ current_pos' = 0
    /\ discourse' = <<>>
    /\ pass1_end' = <<registry>>
    /\ pc' = "pass2"
    /\ UNCHANGED <<regVars, parseVars, stageVars, interpreter_behaviors, outcome, script, session, log, accepted,
                   declared, unit_pre>>

\* pass 2: the full parse of the next unit, with the Registry attached
SemanticParse ==
    LET r == parse_discourse(Slice(tokens, current_pos), <<registry>>, ParserNew) IN
    /\ pc = "pass2"
    /\ current_pos < Len(tokens)
    /\ discourse' = IF r.ok THEN <<r.v>> ELSE <<>>
    /\ current_pos' = IF r.ok THEN current_pos + r.p.pos ELSE current_pos
    /\ log' = Append(log, LogEntry("semantic", current_pos, r.ok))
    /\ outcome' = IF r.ok THEN outcome ELSE Failure("semantic", r.err)
    /\ pc' = NextCheck("semantic", r.ok, "")
    /\ unit_pre' = registry
    /\ UNCHANGED <<regVars, parseVars, stageVars, concern_validator, behaviors_to_run, interpreter_behaviors,
                   script, session, accepted, declared, pass1_end>>

ConcernCheck ==
    LET c == ConcernValidator_check(concern_validator, discourse[1]) IN
    /\ pc = "concern"
    /\ concern_validator' = c.cv
    /\ session' = IF c.err = NoError /\ discourse[1].kind = "Module"
                  THEN [session EXCEPT !.modules =
                            Append(@, [name |-> discourse[1].name,
                                       concern |-> discourse[1].concern,
                                       run |-> session.runs])]
                  ELSE session
    /\ log' = Append(log, LogEntry("concern", UnitStart, c.err = NoError))
    /\ outcome' = IF c.err = NoError THEN outcome ELSE Failure("concern", c.err)
    /\ pc' = NextCheck("concern", c.err = NoError, discourse[1].kind)
    /\ UNCHANGED <<regVars, parseVars, stageVars, current_pos, discourse, behaviors_to_run,
                   interpreter_behaviors, script, accepted, declared, unit_pre, pass1_end>>

TerminationCheck ==
    LET err == TerminationChecker_check(discourse[1]) IN
    /\ pc = "termination"
    /\ log' = Append(log, LogEntry("termination", UnitStart, err = NoError))
    /\ outcome' = IF err = NoError THEN outcome ELSE Failure("termination", err)
    /\ pc' = NextCheck("termination", err = NoError, discourse[1].kind)
    /\ UNCHANGED <<regVars, parseVars, stageVars, current_pos, discourse, concern_validator,
                   behaviors_to_run, interpreter_behaviors, script, session, accepted, declared, unit_pre,
                   pass1_end>>

ShapeCheck ==
    LET err == ShapeValidator_check(registry, discourse[1]) IN
    /\ pc = "shape"
    /\ log' = Append(log, LogEntry("shape", UnitStart, err = NoError))
    /\ outcome' = IF err = NoError THEN outcome ELSE Failure("shape", err)
    /\ pc' = NextCheck("shape", err = NoError, discourse[1].kind)
    /\ UNCHANGED <<regVars, parseVars, stageVars, current_pos, discourse, concern_validator,
                   behaviors_to_run, interpreter_behaviors, script, session, accepted, declared, unit_pre,
                   pass1_end>>

\* the DRY step and what follows it in the iteration: register_behavior and
\* the push to behaviors_to_run
DryCheck ==
    LET r == DryRegistration(registry, discourse[1]) IN
    /\ pc = "dry"
    /\ registry' = r.reg
    /\ log' = Append(log, LogEntry("dry", UnitStart, r.err = NoError))
    /\ outcome' = IF r.err = NoError THEN outcome ELSE Failure("dry", r.err)
    /\ accepted' =
          IF r.err = NoError
          THEN Append(accepted,
                      [name |-> discourse[1].header.name,
                       hash |-> compute_behavior_hash(
                                   discourse[1].body,
                                   get_signature(registry, discourse[1].header.name))])
          ELSE accepted
    /\ interpreter_behaviors' =
          IF r.err = NoError
          THEN Put(interpreter_behaviors, discourse[1].header.name, discourse[1])
          ELSE interpreter_behaviors
    /\ behaviors_to_run' =
          IF r.err = NoError /\ discourse[1].header.name \in {"run", "main"}
          THEN Append(behaviors_to_run, discourse[1])
          ELSE behaviors_to_run
    /\ pc' = NextCheck("dry", r.err = NoError, discourse[1].kind)
    /\ UNCHANGED <<holders, last, nops, parseVars, stageVars, current_pos, discourse,
                   concern_validator, script, session, declared, unit_pre, pass1_end>>

\* mutant: a behaviour is executed as soon as pass 2 has pushed it
Pass2Left_Early == TRUE

\* `while current_pos < tokens.len()` of pass 2 is left
Pass2Left == current_pos >= Len(tokens)

\* an iteration of `for behavior in behaviors_to_run`, after the loop of
\* pass 2 is left
ExecuteDiscourse ==
    LET r == execute_discourse(interpreter, interpreter_behaviors,
                               Head(behaviors_to_run)) IN
    /\ pc = "pass2"
    /\ Pass2Left
    /\ behaviors_to_run # <<>>
    /\ interpreter' = [r.it EXCEPT
                         !.executed = Append(@, Head(behaviors_to_run).header.name),
                         !.result = <<[ok |-> r.ok, v |-> r.v, err |-> r.err]>>]
    /\ behaviors_to_run' = Tail(behaviors_to_run)
    /\ outcome' = IF r.ok THEN outcome ELSE Outcome("Err", "Runtime Error", r.err)
    /\ pc' = IF r.ok THEN pc ELSE "done"
    /\ UNCHANGED <<regVars, parseVars, lexVars, compileVars, current_pos, discourse,
                   concern_validator, interpreter_behaviors, script, session, log,
                   accepted, declared, unit_pre, pass1_end>>

\* the loop over behaviors_to_run is left and the run returns Ok(())
Finish ==
    /\ pc = "pass2"
    /\ Pass2Left
    /\ behaviors_to_run = <<>>
    /\ outcome' = Outcome("Ok", "", NoError)
    /\ pc' = "done"
    /\ UNCHANGED <<regVars, parseVars, stageVars, current_pos, discourse, concern_validator,
                   behaviors_to_run, interpreter_behaviors, script, session, log, accepted, declared,
                   unit_pre, pass1_end>>

Next ==
    \/ RunScript
    \/ StructuralParse
    \/ LinguisticCheck
    \/ BeginPass2
    \/ SemanticParse
    \/ ConcernCheck
    \/ TerminationCheck
    \/ ShapeCheck
    \/ DryCheck
    \/ ExecuteDiscourse
    \/ Finish

Spec == Init /\ [][Next]_vars

\* a Session that runs several scripts
NextSession ==
    \/ RunSessionScript
    \/ StructuralParse
    \/ LinguisticCheck
    \/ BeginPass2
    \/ SemanticParse
    \/ ConcernCheck
    \/ TerminationCheck
    \/ ShapeCheck
    \/ DryCheck
    \/ Finish

SpecSession == Init /\ [][NextSession]_vars

---------------------------------------------------------------------------
(* The Lexer (lexer.rs)                                                    *)

\* a character is a string of length one; "" stands for the None of peek_char
\* char::is_alphabetic, is_ascii_digit and is_whitespace on the characters used
Letters ==
    {"a", "b", "c", "d", "e", "f", "g", "h", "i", "j", "k", "l", "m",
     "n", "o", "p", "q", "r", "s", "t", "u", "v", "w", "x", "y", "z"}
Digits == {"0", "1"}
Whitespace == {" ", "\n"}

\* the spelling of the words the Lexer compares with
Spell ==
    [the |-> <<"t", "h", "e">>,
     with |-> <<"w", "i", "t", "h">>,
     keeps |-> <<"k", "e", "e", "p", "s">>,
     a |-> <<"a">>,
     an |-> <<"a", "n">>,
     module |-> <<"m", "o", "d", "u", "l", "e">>,
     shape |-> <<"s", "h", "a", "p", "e">>,
     behavior |-> <<"b", "e", "h", "a", "v", "i", "o", "r">>,
     effect |-> <<"e", "f", "f", "e", "c", "t">>,
     called |-> <<"c", "a", "l", "l", "e", "d">>,
     intent |-> <<"i", "n", "t", "e", "n", "t">>,
     concern |-> <<"c", "o", "n", "c", "e", "r", "n">>,
     diminishing |-> <<"d", "i", "m", "i", "n", "i", "s", "h", "i", "n", "g">>,
     no |-> <<"n", "o">>,
     guaranteed |-> <<"g", "u", "a", "r", "a", "n", "t", "e", "e", "d">>,
     termination |-> <<"t", "e", "r", "m", "i", "n", "a", "t", "i", "o", "n">>,
     internal |-> <<"i", "n", "t", "e", "r", "n", "a", "l">>,
     x |-> <<"x">>]
peek_char(l) == IF l.input = <<>> THEN "" ELSE Head(l.input)

\* next_char; the character it returns is the one peek_char gave
next_char(l) ==
    IF l.input = <<>> THEN l
    ELSE [input |-> Tail(l.input),
          line |-> IF Head(l.input) = "\n" THEN l.line + 1 ELSE l.line,
          column |-> IF Head(l.input) = "\n" THEN 1 ELSE l.column + 1]

RECURSIVE skip_whitespace(_)
skip_whitespace(l) ==
    IF peek_char(l) \in Whitespace THEN skip_whitespace(next_char(l)) ELSE l

\* the loop of skip_comment: characters are consumed up to and with the newline
RECURSIVE SkipLine(_)
SkipLine(l) ==
    CASE l.input = <<>> -> l
      [] peek_char(l) = "\n" -> next_char(l)
      [] OTHER -> SkipLine(next_char(l))

skip_comment(l) == SkipLine(next_char(l))

\* lex_single_identifier_or_keyword, `identifier` the String built so far
RECURSIVE lex_single_identifier_or_keyword(_, _)
lex_single_identifier_or_keyword(l, identifier) ==
    IF peek_char(l) \in Letters \cup Digits \cup {"-"}
    THEN lex_single_identifier_or_keyword(next_char(l), Append(identifier, peek_char(l)))
    ELSE [l |-> l, word |-> identifier]

\* `self.skip_whitespace(); let w = self.lex_single_identifier_or_keyword();`
NextWord(l) == lex_single_identifier_or_keyword(skip_whitespace(l), <<>>)

\* what a lexing function returns: the Lexer it leaves, the Option<Token> (some,
\* token, payload s); history: probe says whether a composite keyword was
\* looked for and found, saved is the snapshot the probe took, reach the Lexer
\* where the probe ended
Lexed1(l, token, s) ==
    [l |-> l, some |-> TRUE, token |-> token, s |-> s, probe |-> "none",
     saved |-> l, reach |-> l]
LexNone(l) ==
    [l |-> l, some |-> FALSE, token |-> "", s |-> <<>>, probe |-> "none",
     saved |-> l, reach |-> l]

\* the backtrack of a probe: the three assignments from the snapshot
Backtrack_KeepInput(l, saved) ==
    [l EXCEPT !.line = saved.line, !.column = saved.column]

Backtrack(l, saved) ==
    [l EXCEPT !.line = saved.line, !.column = saved.column, !.input = saved.input]

\* a probe that found its composite keyword returns it from where it stands
Matched(l, saved, token) ==
    [l |-> l, some |-> TRUE, token |-> token, s |-> <<>>, probe |-> "matched",
     saved |-> saved, reach |-> l]

\* a probe that did not: backtrack, then the single-word token
Unmatched(l, saved, token) ==
    [l |-> Backtrack(l, saved), some |-> TRUE, token |-> token, s |-> <<>>,
     probe |-> "failed", saved |-> saved, reach |-> l]

\* the nested `if third == ..` reads of a probe: the words of expected are read
\* one after another as long as each is the word expected
RECURSIVE Follows(_, _, _, _, _)
Follows(l, expected, saved, composite, single) ==
    IF expected = <<>> THEN Matched(l, saved, composite)
    ELSE LET w == NextWord(l)
         IN  IF w.word = Spell[Head(expected)]
             THEN Follows(w.l, Tail(expected), saved, composite, single)
             ELSE Unmatched(w.l, saved, single)

\* the arm "the" of lex_identifier_or_keyword_multi
ProbeThe(saved) ==
    LET second == NextWord(saved)
    IN  CASE second.word = Spell.module ->
               Follows(second.l, <<"called">>, saved, "TheModuleCalled", "The")
          [] second.word = Spell.shape -> Matched(second.l, saved, "TheShape")
          [] second.word = Spell.behavior ->
               Follows(second.l, <<"called">>, saved, "TheBehaviorCalled", "The")
          [] second.word = Spell.effect ->
               Follows(second.l, <<"behavior", "called">>, saved,
                       "TheEffectBehaviorCalled", "The")
          [] OTHER -> Unmatched(second.l, saved, "The")

\* the arm "with"
ProbeWith(saved) ==
    LET second == NextWord(saved)
    IN  CASE second.word = Spell.intent -> Matched(second.l, saved, "WithIntent")
          [] second.word = Spell.concern -> Matched(second.l, saved, "WithConcern")
          [] second.word = Spell.diminishing ->
               Matched(second.l, saved, "WithDiminishing")
          [] second.word = Spell.no ->
               Follows(second.l, <<"guaranteed", "termination">>, saved,
                       "NoGuaranteedTermination", "With")
          [] OTHER -> Unmatched(second.l, saved, "With")

\* the arm "keeps"
ProbeKeeps(saved) ==
    LET second == NextWord(saved)
    IN  IF second.word = Spell.internal
        THEN Matched(second.l, saved, "KeepsInternal")
        ELSE Unmatched(second.l, saved, "Keeps")

\* the arms "a" and "an"
ProbeA(saved) ==
    Follows(saved, <<"behavior", "called">>, saved, "TheBehaviorCalled", "A")
ProbeAn(saved) ==
    Follows(saved, <<"effect", "behavior", "called">>, saved,
            "TheEffectBehaviorCalled", "An")

\* the single-word keywords of lex_identifier_or_keyword_multi among the words
\* spelt above: none; such a word is an Identifier
lex_identifier_or_keyword_multi(l) ==
    LET first == lex_single_identifier_or_keyword(l, <<>>)
    IN  CASE first.word = Spell.the -> ProbeThe(first.l)
          [] first.word = Spell.with -> ProbeWith(first.l)
          [] first.word = Spell.keeps -> ProbeKeeps(first.l)
          [] first.word = Spell.a -> ProbeA(first.l)
          [] first.word = Spell.an -> ProbeAn(first.l)
          [] OTHER -> Lexed1(first.l, "Identifier", first.word)

\* the loop of lex_number; a second `.` ends the number
RECURSIVE NumberChars(_, _, _)
NumberChars(l, number_str, has_decimal) ==
    CASE peek_char(l) \in Digits ->
           NumberChars(next_char(l), Append(number_str, peek_char(l)), has_decimal)
      [] peek_char(l) = "." /\ ~has_decimal ->
           NumberChars(next_char(l), Append(number_str, "."), TRUE)
      [] OTHER -> [l |-> l, word |-> number_str, has_decimal |-> has_decimal]

\* lex_number; the digit strings here all parse (an i128 holds 38 digits)
lex_number(l) ==
    LET n == NumberChars(l, <<>>, FALSE)
    IN  Lexed1(n.l, IF n.has_decimal THEN "NumericLiteral" ELSE "IntegerLiteral", n.word)

\* the loop of lex_string: it ends at the closing quote or at the end of input
RECURSIVE StringChars(_, _)
StringChars(l, content) ==
    CASE l.input = <<>> -> Lexed1(l, "TextLiteral", content)
      [] peek_char(l) = "\"" -> Lexed1(next_char(l), "TextLiteral", content)
      [] OTHER -> StringChars(next_char(l), Append(content, peek_char(l)))

lex_string(l) == StringChars(next_char(l), <<>>)

\* the one-character tokens of next_token
Punctuation == [c \in {":", "(", ")", "[", "]"} |->
    CASE c = ":" -> "Colon" [] c = "(" -> "LParen" [] c = ")" -> "RParen"
      [] c = "[" -> "LBracket" [] c = "]" -> "RBracket"]

\* next_token: the TokenWithSpan, or None at the end of input and at a `-`
\* that no second `-` follows
RECURSIVE next_token(_)
next_token(self) ==
    LET l == skip_whitespace(self)
        span == [line |-> l.line, column |-> l.column]
        first_char == peek_char(l)
        Spanned(r) == [span |-> span] @@ r
    IN  CASE first_char = "" -> Spanned(LexNone(l))
          [] first_char = "-" ->
               IF peek_char(next_char(l)) = "-"
               THEN next_token(skip_comment(next_char(l)))
               ELSE Spanned(LexNone(next_char(l)))
          [] first_char \in DOMAIN Punctuation ->
               Spanned(Lexed1(next_char(l), Punctuation[first_char], <<>>))
          [] first_char = "\"" -> Spanned(lex_string(l))
          [] first_char \in Letters -> Spanned(lex_identifier_or_keyword_multi(l))
          [] first_char \in Digits -> Spanned(lex_number(l))
          [] OTHER -> next_token(next_char(l))

---------------------------------------------------------------------------
(* One Lexer over a source text: SpecLex                                   *)

\* what stands between two words of a source
Gaps == {<<" ">>, <<"\n">>, <<" ", "\n", " ", " ">>}

\* the words after the first of the composite keywords
Composites ==
    {<<"module", "called">>, <<"shape">>, <<"behavior", "called">>,
     <<"effect", "behavior", "called">>, <<"intent">>, <<"concern">>,
     <<"diminishing">>, <<"no", "guaranteed", "termination">>, <<"internal">>}
FirstWords == {"the", "with", "keeps", "a", "an", "x"}

\* how a source ends: at once, after a gap, or with a word, a colon, a number,
\* a text literal, an unterminated one, a comment and a word, a lone `-`, or a
\* character that starts no token
Endings ==
    {<<>>, <<"">>, <<"x">>, <<"called">>, <<":">>, <<"1.0.">>, <<"\"x\"", "x">>,
     <<"\"x">>, <<"--x\n", "x">>, <<"-", "x">>, <<"?", "x">>}

Chars(word) ==
    CASE word \in DOMAIN Spell -> Spell[word]
      [] word = "" -> <<>>
      [] word = ":" -> <<":">>
      [] word = "1.0." -> <<"1", ".", "0", ".">>
      [] word = "\"x\"" -> <<"\"", "x", " ", "x", "\"">>
      [] word = "\"x" -> <<"\"", "x", "\n", "x">>
      [] word = "--x\n" -> <<"-", "-", "x", "\n">>
      [] word = "-" -> <<"-">>
      [] word = "?" -> <<"?">>

\* the text of words, gap1 after the first of them and gap between the others
RECURSIVE Text(_, _, _)
Text(words, gap1, gap) ==
    IF Len(words) <= 1 THEN (IF words = <<>> THEN <<>> ELSE Chars(words[1]))
    ELSE Chars(words[1]) \o gap1 \o Text(Tail(words), gap, gap)

InitLex ==
    /\ \E first \in FirstWords, composite \in Composites, ending \in Endings,
          gap1 \in Gaps, gap \in Gaps :
          \E k \in 0..Len(composite) :
              lexer = LexerNew(Text(<<first>> \o SubSeq(composite, 1, k) \o ending,
                                    gap1, gap))
    /\ emitted = <<>>
    /\ CompileIdle
    /\ EvalIdle
    /\ registry = RegistryNew
    /\ RegIdle
    /\ ParseIdle
    /\ RunIdle

\* one call of next_token, as in the loop of run_script (lib.rs:95), which
\* ends at the first None
NextToken ==
    /\ IF emitted = <<>> THEN TRUE ELSE emitted[Len(emitted)].some
    /\ LET r == next_token(lexer)
       IN  /\ lexer' = r.l
           /\ emitted' = Append(emitted, [before |-> lexer] @@ r)
    /\ UNCHANGED <<compileVars, evalVars, regVars, parseVars, runVars>>

NextLex == NextToken

SpecLex == InitLex /\ [][NextLex]_vars

---------------------------------------------------------------------------
(* The HIR (hir.rs) and the Monomorphizer (monomorphize.rs)                *)

\* a HirExpression: variant k, String payload s (variable or callee name,
\* shape, derivation name, literal variant), the sub-expressions in args
Hir(k, s, args) == [k |-> k, s |-> s, args |-> args]
HirLiteral(variant) == Hir("Literal", variant, <<>>)
HirVariable(name) == Hir("Variable", name, <<>>)
HirCall(name, args) == Hir("Call", name, args)
HirDerivation(name, value, body) == Hir("Derivation", name, <<value, body>>)
HirIf(condition, then_branch, else_branch) ==
    Hir("If", "", <<condition, then_branch, else_branch>>)
HirActsAs(subject, shape) == Hir("ActsAs", shape, <<subject>>)
HirTuple(elements) == Hir("Tuple", "", elements)
HirIndex(subject) == Hir("Index", "", <<subject>>)
HirBlock(exprs) == Hir("Block", "", exprs)
HirEmit(e) == Hir("Emit", "", <<e>>)

HirArgument(name, typ) == [name |-> name, typ |-> typ]
HirBehaviorHeader(name, args, return_type) ==
    [name |-> name, is_effect |-> FALSE, args |-> args, return_type |-> return_type]
\* HirDiscourse::Behavior and HirDiscourse::Shape
HirBehavior(header, body) == [k |-> "Behavior", header |-> header, body |-> body]
HirShape(name) == [k |-> "Shape", header |-> HirBehaviorHeader(name, <<>>, Ty("Nothing")),
                   body |-> HirLiteral("Nothing")]

\* `self.type_map.entry(name).or_insert_with(Vec::new).push(typ)`
Push(type_map, name, typ) ==
    Put(type_map, name,
        Append(IF name \in DOMAIN type_map THEN type_map[name] ELSE <<>>, typ))

\* the first `if` of the Call arm of visit_expression
VisitWrapper(type_map, e) ==
    IF /\ e.s \in {"receiving", "utilizing"}
       /\ Len(e.args) >= 2
       /\ e.args[1] = HirVariable("get-size")
       /\ e.args[2].k = "ActsAs"
    THEN Push(type_map, "get-size", F64T)
    ELSE type_map

\* the loop under `if name == "get-size"`
RECURSIVE VisitGetSize(_, _)
VisitGetSize(type_map, args) ==
    CASE args = <<>> -> type_map
      [] Head(args).k = "ActsAs" ->
           VisitGetSize(Push(type_map, "get-size", F64T), Tail(args))
      [] OTHER -> VisitGetSize(type_map, Tail(args))

RECURSIVE visit_expression(_, _)
\* a `for e in ..` loop of visit_expression; with name "get-size" the last
\* loop of the Call arm, which pushes once more for an acts-as argument
RECURSIVE VisitEach(_, _, _)
VisitEach(type_map, name, exprs) ==
    IF exprs = <<>> THEN type_map
    ELSE VisitEach(
             visit_expression(
                 IF Head(exprs).k = "ActsAs" /\ name = "get-size"
                 THEN Push(type_map, name, F64T) ELSE type_map,
                 Head(exprs)),
             name, Tail(exprs))

visit_expression(type_map, expr) ==
    CASE expr.k = "Call" ->
           VisitEach(
               IF expr.s = "get-size"
               THEN VisitGetSize(VisitWrapper(type_map, expr), expr.args)
               ELSE VisitWrapper(type_map, expr),
               expr.s, expr.args)
      [] expr.k \in {"Derivation", "If", "ActsAs", "Block", "Emit"} ->
           VisitEach(type_map, "", expr.args)
      [] OTHER -> type_map

RECURSIVE identify_specializations(_, _)
identify_specializations(type_map, hir_list) ==
    CASE hir_list = <<>> -> type_map
      [] Head(hir_list).k = "Behavior" ->
           identify_specializations(visit_expression(type_map, Head(hir_list).body),
                                    Tail(hir_list))
      [] OTHER -> identify_specializations(type_map, Tail(hir_list))

\* `let type_suffix = match typ { .. }`
type_suffix(typ) ==
    CASE typ = F64T -> "float" [] typ = I64T -> "integer" [] OTHER -> "unknown"

\* `format!("{}_{}", name, type_suffix)`
SpecializedName(name, typ) == name \o "_" \o type_suffix(typ)

\* the specialized copy of a behaviour for typ; rewrite_expression leaves the
\* body as it is
Specialized(d, typ) ==
    HirBehavior(
        [d.header EXCEPT
            !.name = SpecializedName(d.header.name, typ),
            !.args = [i \in DOMAIN d.header.args |->
                        IF d.header.args[i].typ.k = "Shape"
                        THEN HirArgument(d.header.args[i].name, typ)
                        ELSE d.header.args[i]]],
        d.body)

\* the first loop of apply_specializations: new_discourse
RECURSIVE NewDiscourse(_, _)
NewDiscourse(type_map, hir_list) ==
    IF hir_list = <<>> THEN <<>>
    ELSE LET d == Head(hir_list)
         IN  (IF d.k = "Behavior" /\ d.header.name \in DOMAIN type_map
              THEN [i \in DOMAIN type_map[d.header.name] |->
                      Specialized(d, type_map[d.header.name][i])]
              ELSE <<>>) \o NewDiscourse(type_map, Tail(hir_list))

\* the wrapper form of the Call arm of rewrite_call_sites
RewriteWrapper(e, old_name, new_name) ==
    IF /\ e.s \in {"receiving", "utilizes"}
       /\ Len(e.args) >= 1
       /\ e.args[1] = HirVariable(old_name)
    THEN [e EXCEPT !.args =
            [i \in DOMAIN e.args |->
               CASE i = 1 -> HirVariable(new_name)
                 [] i = 2 /\ e.args[2].k = "ActsAs" -> e.args[2].args[1]
                 [] OTHER -> e.args[i]]]
    ELSE e

RECURSIVE rewrite_call_sites(_, _, _)
rewrite_call_sites(expr, old_name, new_name) ==
    CASE expr.k = "Call" ->
           LET e == RewriteWrapper(expr, old_name, new_name)
           IN  [e EXCEPT
                  !.s = IF e.s = old_name THEN new_name ELSE e.s,
                  !.args = [i \in DOMAIN e.args |->
                              rewrite_call_sites(e.args[i], old_name, new_name)]]
      [] expr.k \in {"Derivation", "If", "ActsAs", "Block", "Emit"} ->
           [expr EXCEPT !.args = [i \in DOMAIN expr.args |->
                                    rewrite_call_sites(expr.args[i], old_name, new_name)]]
      [] OTHER -> expr

\* `args.get(1).unwrap()` of the wrapper form panics when the call has one
\* argument; the nodes are met before their arguments are rewritten
RECURSIVE RewritePanics(_, _)
RewritePanics(expr, old_name) ==
    \/ /\ expr.k = "Call"
       /\ expr.s \in {"receiving", "utilizes"}
       /\ Len(expr.args) = 1
       /\ expr.args[1] = HirVariable(old_name)
    \/ /\ expr.k \in {"Call", "Derivation", "If", "ActsAs", "Block", "Emit"}
       /\ \E i \in DOMAIN expr.args : RewritePanics(expr.args[i], old_name)

\* the loops over type_map and its type lists for one body; every key of
\* type_map is "get-size", so the order of the HashMap plays no part
RECURSIVE RewriteTypes(_, _, _)
RewriteTypes(body, original_name, types) ==
    IF types = <<>> THEN body
    ELSE RewriteTypes(
             rewrite_call_sites(body, original_name,
                                SpecializedName(original_name, Head(types))),
             original_name, Tail(types))

RECURSIVE RewriteBody(_, _, _)
RewriteBody(body, type_map, names) ==
    IF names = {} THEN body
    ELSE LET original_name == CHOOSE n \in names : TRUE
         IN  RewriteBody(RewriteTypes(body, original_name, type_map[original_name]),
                         type_map, names \ {original_name})

\* apply_specializations: the HIR list it leaves
apply_specializations(type_map, hir_list) ==
    [i \in DOMAIN hir_list |->
        IF hir_list[i].k = "Behavior"
        THEN [hir_list[i] EXCEPT !.body = RewriteBody(@, type_map, DOMAIN type_map)]
        ELSE hir_list[i]]
    \o NewDiscourse(type_map, hir_list)

\* whether apply_specializations panics instead
ApplyPanics(type_map, hir_list) ==
    \E i \in DOMAIN hir_list, n \in DOMAIN type_map :
        hir_list[i].k = "Behavior" /\ RewritePanics(hir_list[i].body, n)

---------------------------------------------------------------------------
(* Monomorphizer::run on a HIR list: SpecMono                              *)

Measurable == ShapeTy("Measurable")
\* the subjects of acts-as: a float, an integer
Subjects == {"F64", "I64"}
ActsAsArg(variant) == HirActsAs(HirLiteral(variant), "Measurable")

\* the callees: get-size and area take one Measurable, scale a Measurable and
\* an integer
Callees == {"get-size", "area", "scale"}
CalleeBehavior(name) ==
    HirBehavior(
        HirBehaviorHeader(name,
            IF name = "scale"
            THEN <<HirArgument("item", Measurable), HirArgument("k", I64T)>>
            ELSE <<HirArgument("item", Measurable)>>,
            F64T),
        HirCall("magnitude", <<HirVariable("item")>>))

\* a call of callee f on an acts-as of subject s
ShapeCall(f, s) ==
    HirCall(f, IF f = "scale" THEN <<ActsAsArg(s), HirLiteral("I64")>>
               ELSE <<ActsAsArg(s)>>)

\* where the call of a caller's body stands
Sites ==
    {"direct", "derivation_value", "nested_call", "if_branch", "block", "emit",
     "tuple", "receiving", "utilizing", "utilizes", "utilizes_alone", "plain"}

CallerBody(site, f, s) ==
    CASE site = "direct" -> ShapeCall(f, s)
      [] site = "derivation_value" ->
           HirDerivation("v", ShapeCall(f, s), HirVariable("v"))
      [] site = "nested_call" ->
           HirCall("added-to", <<ShapeCall(f, s), HirLiteral("F64")>>)
      [] site = "if_branch" ->
           HirIf(HirLiteral("Boolean"), ShapeCall(f, s), HirLiteral("F64"))
      [] site = "block" -> HirBlock(<<HirLiteral("Nothing"), ShapeCall(f, s)>>)
      [] site = "emit" -> HirEmit(ShapeCall(f, s))
      [] site = "tuple" -> HirTuple(<<ShapeCall(f, s)>>)
      [] site = "receiving" -> HirCall("receiving", <<HirVariable(f), ActsAsArg(s)>>)
      [] site = "utilizing" -> HirCall("utilizing", <<HirVariable(f), ActsAsArg(s)>>)
      [] site = "utilizes" -> HirCall("utilizes", <<HirVariable(f), ActsAsArg(s)>>)
      [] site = "utilizes_alone" -> HirCall("utilizes", <<HirVariable(f)>>)
      [] site = "plain" -> HirCall(f, <<HirLiteral("F64")>>)

Caller(name, site, f, s) ==
    HirBehavior(HirBehaviorHeader(name, <<>>, F64T), CallerBody(site, f, s))

\* callers per HIR list
MaxCallers == 2
\* where the call of a caller after the first stands
LaterSites == {"direct", "receiving", "plain"}

\* the HIR lists: a shape, the callees, then the callers
HirCallees == <<HirShape("Measurable")>> \o
    <<CalleeBehavior("get-size"), CalleeBehavior("area"), CalleeBehavior("scale")>>

InitMono ==
    /\ \E n \in 1..MaxCallers :
          \E site \in [1..n -> Sites], f \in [1..n -> Callees], s \in [1..n -> Subjects] :
              /\ \A i \in 2..n : site[i] \in LaterSites /\ s[i] = "F64"
              /\ hir = HirCallees \o
                       [i \in 1..n |-> Caller(IF i = 1 THEN "main" ELSE "helper",
                                              site[i], f[i], s[i])]
    /\ monomorphizer = MonomorphizerNew
    /\ hir_in = hir
    /\ mir = MirIdle
    /\ LexIdle
    /\ EvalIdle
    /\ registry = RegistryNew
    /\ RegIdle
    /\ ParseIdle
    /\ RunIdle

\* Monomorphizer::run, first call: identify_specializations
IdentifySpecializations ==
    /\ monomorphizer.step = "new"
    /\ monomorphizer' = [type_map |-> identify_specializations(<<>>, hir),
                         step |-> "identified"]
    /\ UNCHANGED <<hir, hir_in, mir, lexVars, evalVars, regVars,
                   parseVars, runVars>>

\* Monomorphizer::run, second call: apply_specializations
ApplySpecializations ==
    /\ monomorphizer.step = "identified"
    /\ IF ApplyPanics(monomorphizer.type_map, hir)
       THEN /\ monomorphizer' = [monomorphizer EXCEPT !.step = "panic"]
            /\ UNCHANGED hir
       ELSE /\ monomorphizer' = [monomorphizer EXCEPT !.step = "done"]
            /\ hir' = apply_specializations(monomorphizer.type_map, hir)
    /\ UNCHANGED <<hir_in, mir, lexVars, evalVars, regVars,
                   parseVars, runVars>>

NextMono == IdentifySpecializations \/ ApplySpecializations

SpecMono == InitMono /\ [][NextMono]_vars

---------------------------------------------------------------------------
(* The MIR and the MirBuilder (mir.rs)                                     *)

\* MirOperand
OperandConstant(lit) == [k |-> "Constant", lit |-> lit, v |-> 0]
OperandVariable(v) == [k |-> "Variable", lit |-> "", v |-> v]

\* a MirInstruction: variant k, dest (<<>> for Emit, which has none), the
\* callee or operator, the operands
MirInstruction(k, dest, name, operands) ==
    [k |-> k, dest |-> dest, name |-> name, operands |-> operands]
Assign(dest, src) == MirInstruction("Assign", <<dest>>, "", <<src>>)

\* MirTerminator
Unreachable == [k |-> "Unreachable", operand |-> <<>>, targets |-> <<>>]
Return(op) == [k |-> "Return", operand |-> <<op>>, targets |-> <<>>]
Branch(id) == [k |-> "Branch", operand |-> <<>>, targets |-> <<id>>]
CondBranch(condition, then_block, else_block) ==
    [k |-> "CondBranch", operand |-> <<condition>>, targets |-> <<then_block, else_block>>]

BasicBlock(id) == [id |-> id, instructions |-> <<>>, terminator |-> Unreachable]

\* the callees build_expression lowers to a BinaryOperation
MirBinOp ==
    [x \in {"added-to", "decreased-by", "scales-by", "partitions-by", "matches",
            "exceeds", "falls-short-of"} |->
        CASE x = "added-to" -> "Add" [] x = "decreased-by" -> "Sub"
          [] x = "scales-by" -> "Mul" [] x = "partitions-by" -> "Div"
          [] x = "matches" -> "Eq" [] x = "exceeds" -> "Gt"
          [] x = "falls-short-of" -> "Lt"]

\* what build_expression works on: the MirBuilder fields, current_block and
\* blocks of its caller, the operand it returns (op), the operands a loop over
\* expressions collected (ops), and whether it panicked; history: scope, the
\* bindings of the parameters and of the derivations whose body is being
\* built, and refs, for every Variable met its name, the id var_map gave
\* (<<>> for none) and the id scope gives
BuildState(builder, current_block) ==
    [next_ssa_var |-> builder.next_ssa_var, next_block_id |-> builder.next_block_id,
     var_map |-> builder.var_map, current_block |-> current_block, blocks |-> <<>>,
     op |-> OperandConstant("Nothing"), ops |-> <<>>, var |-> 0, panic |-> FALSE,
     scope |-> <<>>, refs |-> <<>>]

\* `self.var_map.insert(name, var)`; the name is bound in scope as well
Bind(st, name, var) ==
    [st EXCEPT !.var_map = Put(@, name, var), !.scope = Put(@, name, var)]

\* the arm Variable
BuildVariable(st, name) ==
    LET seen == [st EXCEPT !.refs = Append(@, [name |-> name,
                                              got |-> Lookup(st.var_map, name),
                                              bound |-> Lookup(st.scope, name)])]
    IN  IF name \in DOMAIN st.var_map
        THEN [seen EXCEPT !.op = OperandVariable(st.var_map[name])]
        ELSE [seen EXCEPT !.panic = TRUE]

\* new_ssa_var; the id it returns is left in var
new_ssa_var_Reuse(st) == [st EXCEPT !.var = st.next_ssa_var]

new_ssa_var(st) == [st EXCEPT !.var = st.next_ssa_var, !.next_ssa_var = @ + 1]

\* `current_block.instructions.push(..)`
PushInstruction(st, instruction) ==
    [st EXCEPT !.current_block.instructions = Append(@, instruction)]

\* mutant: the block is pushed with the terminator it was created with
Finalize_Unterminated(st, terminator, assign, id) ==
    [st EXCEPT
       !.blocks = Append(@, [st.current_block EXCEPT !.instructions = @ \o assign]),
       !.current_block = BasicBlock(id)]

\* `std::mem::replace(current_block, BasicBlock { id, .. })` after the
\* terminator is set, the push of the Assign to the if-result where there is
\* one, and `blocks.push(..)`
Finalize(st, terminator, assign, id) ==
    [st EXCEPT
       !.blocks = Append(@, [st.current_block EXCEPT
                               !.terminator = terminator,
                               !.instructions = @ \o assign]),
       !.current_block = BasicBlock(id)]

RECURSIVE build_expression(_, _)
\* a `for e in ..` loop of build_expression
RECURSIVE BuildEach(_, _, _)
BuildEach(st, exprs, ops) ==
    IF exprs = <<>> THEN [st EXCEPT !.ops = ops]
    ELSE LET r == build_expression(st, Head(exprs))
         IN  BuildEach(r, Tail(exprs), Append(ops, r.op))

\* an arm that builds its operands, takes a new id and pushes one instruction
BuildInstruction(st, exprs, k, name) ==
    LET a == new_ssa_var(BuildEach(st, exprs, <<>>))
    IN  [PushInstruction(a, MirInstruction(k, <<a.var>>, name, a.ops))
           EXCEPT !.op = OperandVariable(a.var)]

\* the arm If
BuildIf(st, expr) ==
    LET c == new_ssa_var(build_expression(st, expr.args[1]))
        dest == c.var
        then_id == c.next_block_id
        else_id == c.next_block_id + 1
        merge_id == c.next_block_id + 2
        t == build_expression(
                 Finalize([c EXCEPT !.next_block_id = @ + 3],
                          CondBranch(c.op, then_id, else_id), <<>>, then_id),
                 expr.args[2])
        e == build_expression(
                 Finalize(t, Branch(merge_id), <<Assign(dest, t.op)>>, else_id),
                 expr.args[3])
    IN  [Finalize(e, Branch(merge_id), <<Assign(dest, e.op)>>, merge_id)
           EXCEPT !.op = OperandVariable(dest)]

\* the arm Derivation; the scope of the history ends with the body
BuildDerivation(st, expr) ==
    LET v == new_ssa_var(build_expression(st, expr.args[1]))
        r == build_expression(Bind(PushInstruction(v, Assign(v.var, v.op)),
                                   expr.s, v.var),
                              expr.args[2])
    IN  [r EXCEPT !.scope = v.scope]

build_expression(st, expr) ==
    CASE st.panic -> st
      [] expr.k = "Literal" -> [st EXCEPT !.op = OperandConstant(expr.s)]
      [] expr.k = "Variable" -> BuildVariable(st, expr.s)
      [] expr.k = "Call" ->
           IF Len(expr.args) = 2 /\ expr.s \in DOMAIN MirBinOp
           THEN BuildInstruction(st, expr.args, "BinaryOperation", MirBinOp[expr.s])
           ELSE BuildInstruction(st, expr.args, "Call", expr.s)
      [] expr.k = "Derivation" -> BuildDerivation(st, expr)
      [] expr.k = "If" -> BuildIf(st, expr)
      [] expr.k = "Block" ->
           LET b == BuildEach(st, expr.args, <<>>)
           IN  [b EXCEPT !.op = IF b.ops = <<>> THEN OperandConstant("Nothing")
                                 ELSE b.ops[Len(b.ops)]]
      [] expr.k = "Emit" ->
           LET r == build_expression(st, expr.args[1])
           IN  [PushInstruction(r, MirInstruction("Emit", <<>>, "", <<r.op>>))
                  EXCEPT !.op = OperandConstant("Nothing")]
      [] expr.k = "Tuple" -> BuildInstruction(st, expr.args, "Tuple", "")
      [] expr.k = "Index" -> BuildInstruction(st, expr.args, "Index", "")
      [] expr.k = "ActsAs" -> build_expression(st, expr.args[1])

\* the loop over header.args of build_function
RECURSIVE BuildArguments(_, _, _)
BuildArguments(st, header_args, args) ==
    IF header_args = <<>> THEN [st EXCEPT !.ops = args]
    ELSE LET a == new_ssa_var(st)
             arg == Head(header_args)
         IN  BuildArguments(
                 Bind(a, arg.name, a.var),
                 Tail(header_args),
                 Append(args, [name |-> arg.name, typ |-> arg.typ, ssa_var |-> a.var]))

\* build_function: the MirBuilder it leaves, the MirFunction, whether it panicked
build_function(header, body) ==
    LET a == BuildArguments(BuildState(MirBuilderNew, BasicBlock(0)), header.args, <<>>)
        r == build_expression([a EXCEPT !.next_block_id = 1], body)
    IN  [builder |-> [next_ssa_var |-> r.next_ssa_var,
                      next_block_id |-> r.next_block_id, var_map |-> r.var_map],
         panic |-> r.panic,
         refs |-> r.refs,
         function |->
            [name |-> header.name, args |-> a.ops, return_type |-> header.return_type,
             blocks |-> Append(r.blocks,
                               [r.current_block EXCEPT !.terminator = Return(r.op)])]]

---------------------------------------------------------------------------
(* MirBuilder::build_program on a HIR list: SpecMir                        *)

\* the parameter lists of the behaviours built
MirParams ==
    {<<>>, <<HirArgument("a", I64T)>>, <<HirArgument("a", I64T), HirArgument("b", I64T)>>}

Lit == HirLiteral("I64")
Cond == HirCall("exceeds", <<Lit, Lit>>)
SimpleIf == HirIf(Cond, Lit, HirCall("added-to", <<Lit, Lit>>))

\* the bodies: with no if, with one, with ifs in a branch, a condition, a
\* call argument, a derivation value, behind one another in a block, with a
\* tuple and an index, an emit, an acts-as, with a variable no one bound, and
\* with a name read after the derivation that bound it: one that shadowed a
\* parameter or an outer derivation, one bound nowhere else, one bound in the
\* then branch and read in the else branch or after the if
MirBodies ==
    [literal |-> Lit,
     call |-> HirCall("show", <<Lit>>),
     binary |-> HirCall("added-to", <<HirCall("scales-by", <<Lit, Lit>>), Lit>>),
     derivation |-> HirDerivation("v", HirCall("added-to", <<Lit, Lit>>),
                                  HirCall("added-to", <<HirVariable("v"), Lit>>)),
     if_plain |-> SimpleIf,
     if_literals |-> HirIf(HirLiteral("Boolean"), Lit, Lit),
     if_in_then |-> HirIf(Cond, SimpleIf, Lit),
     if_in_else |-> HirIf(Cond, Lit, SimpleIf),
     if_in_condition |-> HirIf(HirIf(Cond, Cond, Cond), Lit, Lit),
     if_in_argument |-> HirCall("added-to", <<SimpleIf, SimpleIf>>),
     if_in_value |-> HirDerivation("v", SimpleIf, HirVariable("v")),
     if_in_block |-> HirBlock(<<SimpleIf, SimpleIf>>),
     tuple |-> HirIndex(HirTuple(<<Lit, HirCall("show", <<Lit>>)>>)),
     emit |-> HirBlock(<<HirEmit(HirCall("show", <<Lit>>)), Lit>>),
     acts_as |-> HirCall("get-size", <<HirActsAs(Lit, "Measurable")>>),
     unbound |-> HirCall("added-to", <<HirVariable("a"), HirVariable("zz")>>),
     shadow_parameter |->
        HirCall("added-to",
                <<HirDerivation("a", HirCall("show", <<Lit>>), HirVariable("a")),
                  HirVariable("a")>>),
     shadow_outer |->
        HirDerivation("v", HirCall("show", <<Lit>>),
            HirBlock(<<HirDerivation("v", HirCall("show", <<HirVariable("v")>>),
                                     HirVariable("v")),
                       HirVariable("v")>>)),
     after_body |->
        HirBlock(<<HirDerivation("v", HirCall("show", <<Lit>>), HirVariable("v")),
                   HirVariable("v")>>),
     then_to_else |->
        HirIf(Cond, HirDerivation("v", HirCall("show", <<Lit>>), HirVariable("v")),
              HirVariable("v")),
     then_to_merge |->
        HirBlock(<<HirIf(Cond,
                         HirDerivation("v", HirCall("show", <<Lit>>), HirVariable("v")),
                         Lit),
                   HirVariable("v")>>),
     parameter |-> HirIf(HirCall("exceeds", <<HirVariable("a"), Lit>>),
                         HirVariable("a"), Lit)]

\* behaviours per HIR list
MaxFunctions == 2
\* the bodies of the behaviours after the first
LaterBodies == {"literal", "derivation", "if_in_then", "parameter"}

MirBehavior(name, params, body) ==
    HirBehavior(HirBehaviorHeader(name, params, I64T), MirBodies[body])

InitMir ==
    /\ \E n \in 1..MaxFunctions :
          \E params \in [1..n -> MirParams], body \in [1..n -> DOMAIN MirBodies] :
              /\ \A i \in 1..n : body[i] \in {"unbound", "parameter", "shadow_parameter"} => params[i] # <<>>
              /\ \A i \in 2..n : body[i] \in LaterBodies
              /\ hir = <<HirShape("Measurable")>> \o
                       [i \in 1..n |-> MirBehavior(IF i = 1 THEN "main" ELSE "helper",
                                                   params[i], body[i])]
    /\ hir_in = hir
    /\ mir = MirIdle
    /\ monomorphizer = MonomorphizerNew
    /\ LexIdle
    /\ EvalIdle
    /\ registry = RegistryNew
    /\ RegIdle
    /\ ParseIdle
    /\ RunIdle

\* build_program, one iteration on a discourse that is no Behavior
SkipDiscourse ==
    /\ ~mir.panic
    /\ mir.at < Len(hir)
    /\ hir[mir.at + 1].k # "Behavior"
    /\ mir' = [mir EXCEPT !.at = @ + 1]
    /\ UNCHANGED <<hir, hir_in, monomorphizer, lexVars, evalVars, regVars,
                   parseVars, runVars>>

\* build_program, one iteration on a Behavior: build_function
BuildFunction ==
    /\ ~mir.panic
    /\ mir.at < Len(hir)
    /\ hir[mir.at + 1].k = "Behavior"
    /\ LET r == build_function(hir[mir.at + 1].header, hir[mir.at + 1].body)
       IN  mir' = [builder |-> r.builder,
                   functions |-> IF r.panic THEN mir.functions
                                 ELSE Append(mir.functions, r.function),
                   at |-> mir.at + 1,
                   panic |-> r.panic,
                   refs |-> r.refs]
    /\ UNCHANGED <<hir, hir_in, monomorphizer, lexVars, evalVars, regVars,
                   parseVars, runVars>>

NextMir == SkipDiscourse \/ BuildFunction

SpecMir == InitMir /\ [][NextMir]_vars

---------------------------------------------------------------------------
(* Claims about the Registry operations, checked under SpecReg             *)

\* C1: register(name, hash) returns Ok and records name as holder of hash, as
\* registered and as implemented when no earlier register succeeded with that
\* hash; otherwise it returns BehaviorConflict{name, other_name} with other_name
\* the first successful holder, and leaves entries, names and implemented_names
\* as they were.
C1_RegisterContract ==
    last.op = "register" =>
        IF ~last.held
        THEN /\ last.err = NoError
             /\ last.hash \in DOMAIN registry.entries
             /\ registry.entries[last.hash] = last.name
             /\ is_registered(registry, last.name)
             /\ is_implemented(registry, last.name)
        ELSE /\ last.err = BehaviorConflict(last.name, last.holder)
             /\ registry.entries = last.pre.entries
             /\ registry.names = last.pre.names
             /\ registry.implemented_names = last.pre.implemented_names

\* C1 witness: a register call met a hash first taken by another name
C1_Witness ==
    /\ last.op = "register"
    /\ last.held
    /\ last.holder # last.name
    /\ last.err.kind = "BehaviorConflict"

\* C6 (as claimed): satisfies returns true exactly when the shape is defined and
\* every promise is implemented and has a stored signature equal to the promised
\* one; a promised behaviour with no stored signature makes it false.
C6_SatisfiesExact ==
    last.op = "satisfies" =>
        (last.result <=>
            /\ last.name \in DOMAIN last.pre.shapes
            /\ \A i \in 1..Len(last.pre.shapes[last.name]) :
                 LET p == last.pre.shapes[last.name][i] IN
                 /\ is_implemented(last.pre, p.name)
                 /\ HasSignature(last.pre, p.name)
                 /\ get_signature(last.pre, p.name) = p.sig)

\* the signature add_suite leaves stored for a name: the last one listed for it
RECURSIVE LastListed(_, _)
LastListed(list, name) ==
    IF list[Len(list)].name = name THEN list[Len(list)]
    ELSE LastListed(SubSeq(list, 1, Len(list) - 1), name)

\* C7: add_suite with a name already in the suite set changes nothing in the
\* Registry, whatever is passed and whatever ran in between; the first call with
\* a name registers every listed signature (name, arity, signature), marks each
\* implemented and stores every shape (for a name listed twice, the later entry).
C7_AddSuiteIdempotent ==
    last.op = "add_suite" =>
        IF last.name \in last.pre.suites
        THEN registry = last.pre
        ELSE /\ last.name \in registry.suites
             /\ \A i \in 1..Len(last.sigs) :
                  LET n == last.sigs[i].name IN
                  /\ is_registered(registry, n)
                  /\ is_implemented(registry, n)
                  /\ HasSignature(registry, n)
                  /\ get_signature(registry, n) = LastListed(last.sigs, n).sig
                  /\ HasArity(registry, n)
                  /\ get_arity(registry, n) = Len(get_signature(registry, n).input_types)
             /\ \A i \in 1..Len(last.shapes) :
                  LET n == last.shapes[i].name IN
                  /\ n \in DOMAIN registry.shapes
                  /\ registry.shapes[n] = LastListed(last.shapes, n).behaviors

\* C7 witness: a second add_suite of a seeded name, passing a signature whose
\* name the Registry does not know, after which it still does not know it
C7_Witness ==
    /\ last.op = "add_suite"
    /\ last.name \in last.pre.suites
    /\ \E i \in 1..Len(last.sigs) : ~is_registered(registry, last.sigs[i].name)

---------------------------------------------------------------------------
(* Claims about the parser, checked under SpecParse                        *)

\* the call recorded in pres is the first one on the buffer, through entry op
FirstCall(op) == pres.op = op /\ pres.start = 0

\* the AST of a primary parsed on its own, with the Registry of the chain
PrimaryAst(id, reg) == parse_expression(Primaries[id], RegOf(reg), ParserNew).v

\* vn(...v2(v1(p0, p1), p2)..., pn)
RECURSIVE LeftNested(_, _, _)
LeftNested(segs, verbs, reg) ==
    IF verbs = <<>> THEN PrimaryAst(segs[1], reg)
    ELSE BehaviorCall(VerbLexeme(verbs[Len(verbs)]),
                      << LeftNested(SubSeq(segs, 1, Len(segs) - 1),
                                    SubSeq(verbs, 1, Len(verbs) - 1), reg),
                         PrimaryAst(segs[Len(segs)], reg) >>)

ParsedLeftNested ==
    /\ pres.ok
    /\ pres.end_pos = Len(tokens)
    /\ pres.expr = <<LeftNested(pin.segs, pin.verbs, pin.reg)>>

\* C8 (as claimed): for tokens p0 v1 p1 ... vn pn with every vi a registered
\* behaviour of arity 2 and every pi a primary, parse_expression returns the
\* left-nested call vn(...v1(p0, p1)..., pn).
C8_LeftNested ==
    (pin.form = "chain" /\ pin.reg = "session" /\ FirstCall("parse_expression"))
        => ParsedLeftNested

\* C8 (amended): the same, when every primary but the last is a literal, an
\* identifier, a parenthesised expression or a bracketed list; an if, emit,
\* broadcasts, let or derivation takes the verbs after it into its own last
\* expression.
C8_LeftNestedClosed ==
    (/\ pin.form = "chain"
     /\ pin.reg = "session"
     /\ FirstCall("parse_expression")
     /\ \A i \in 1..(Len(pin.segs) - 1) : pin.segs[i] \in ClosedPrimaries)
        => ParsedLeftNested

\* C8 witness: two verbs, one an identifier and one a keyword, around a
\* parenthesised primary, parsed to the end of the buffer
C8_Witness ==
    /\ pin.form = "chain"
    /\ pin.reg = "session"
    /\ FirstCall("parse_expression")
    /\ Len(pin.verbs) = 2
    /\ pin.verbs[1] # pin.verbs[2]
    /\ pin.segs[2] = "paren"
    /\ pin.segs[3] = "ifte"
    /\ pres.ok
    /\ pres.end_pos = Len(tokens)

\* C9 (as claimed): with a Registry attached, a verb in primary position that
\* names a registered behaviour of arity >= 1, lexed as an identifier or as a
\* keyword, fails with the ParseError "refuses to be used as a prefix"; a
\* registered behaviour of arity 0 is parsed as a BehaviorCall without
\* arguments; an unregistered identifier is parsed as an Identifier.
C9_PrefixVerb ==
    (pin.form = "prefix" /\ pin.reg # "none" /\ FirstCall("parse_expression")) =>
        IF is_registered(RegOf(pin.reg)[1], VerbLexeme(pin.name))
        THEN IF ArityOr0(RegOf(pin.reg)[1], VerbLexeme(pin.name)) >= 1
             THEN /\ ~pres.ok
                  /\ pres.err = ParseError("The behavior refuses to be used as a prefix. Please utilize Subject-Verb-Object (SVO) grammar.")
             ELSE /\ pres.ok
                  /\ pres.expr = <<BehaviorCall(VerbLexeme(pin.name), <<>>)>>
        ELSE pin.name.t = "Identifier"
                => (pres.ok /\ pres.expr = <<IdentifierExpr(pin.name.s)>>)

\* the entry point a binding construct is parsed through
BinderEntry(binder) ==
    IF binder \in {"let", "derivation"} THEN "parse_expression" ELSE "parse_discourse"

\* C10 (as claimed): with a Registry attached, a token consumed as a derivation
\* or let name, as a parameter name or as a module name is rejected with a
\* ParseError when its lexeme is a registered behaviour name.
C10_Shadowing ==
    (/\ pin.form = "binder"
     /\ pin.binder \in {"let", "derivation", "parameter", "module"}
     /\ pin.reg # "none"
     /\ FirstCall(BinderEntry(pin.binder))
     /\ is_registered(RegOf(pin.reg)[1], VerbLexeme(pin.name)))
        => (~pres.ok /\ pres.err.kind = "ParseError")

---------------------------------------------------------------------------
(* Claims about a run of run_script, checked under Spec                    *)

LastEntry == log[Len(log)]
Failed == log # <<>> /\ ~LastEntry.ok

\* the hash the DRY step computed for the unit in discourse: the signature is
\* read from the Registry, which no step between the parse and DRY changes
DryHash ==
    compute_behavior_hash(discourse[1].body,
                          get_signature(unit_pre, discourse[1].header.name))

\* the name of the first behaviour of the run registered under hash
FirstHolder(hash) ==
    accepted[CHOOSE i \in 1..Len(accepted) :
                /\ accepted[i].hash = hash
                /\ \A j \in 1..(i - 1) : accepted[j].hash # hash].name

\* C2: in a run, two behaviours that both complete the DRY step with equal
\* semantic hashes have equal names, the hash map holds each completed hash
\* under its one name, and a behaviour that reaches the DRY step with a hash
\* already held ends the run with "DRY Error" and a BehaviorConflict naming
\* the first holder.
C2_DryConflict ==
    /\ \A i, j \in 1..Len(accepted) :
          accepted[i].hash = accepted[j].hash => accepted[i].name = accepted[j].name
    /\ \A i \in 1..Len(accepted) :
          /\ accepted[i].hash \in DOMAIN registry.entries
          /\ registry.entries[accepted[i].hash] = accepted[i].name
    /\ (log # <<>> /\ LastEntry.check = "dry") =>
          IF DryHash \in DOMAIN unit_pre.entries
          THEN /\ ~LastEntry.ok
               /\ pc = "done"
               /\ outcome = Outcome("Err", "DRY Error",
                                    BehaviorConflict(discourse[1].header.name,
                                                     FirstHolder(DryHash)))
          ELSE LastEntry.ok

\* C2 witness: a run ended by the DRY step of a behaviour whose hash an earlier
\* behaviour of another name holds
C2_Witness ==
    /\ pc = "done"
    /\ Failed
    /\ LastEntry.check = "dry"
    /\ Len(accepted) >= 1
    /\ outcome.err.kind = "BehaviorConflict"
    /\ outcome.err.other_name = accepted[1].name
    /\ outcome.err.name # outcome.err.other_name

\* C3 (as claimed): after pass 1, every behaviour declared in the source has
\* the number of parameters of its header as its arity, in every order of
\* declarations and also when a shape promises a behaviour of the same name.
C3_ArityOfDeclared ==
    pass1_end # <<>> =>
        \A i \in 1..Len(declared) :
            /\ HasArity(pass1_end[1], declared[i].name)
            /\ get_arity(pass1_end[1], declared[i].name) = declared[i].parameters

\* C4 (as claimed): from the start of pass 2 until the run returns the Registry
\* is what it was at the end of pass 1.
C4_RegistryFrozen ==
    pass1_end # <<>> => registry = pass1_end[1]

\* C4 (amended): from the start of pass 2 until the run returns, the names,
\* arities, signatures, shapes and suites are those of the end of pass 1; the
\* implemented names and the hash entries are those of the end of pass 1 plus
\* one per behaviour that completed the DRY step.
C4_RegistryGrowsByDry ==
    pass1_end # <<>> =>
        /\ registry.names = pass1_end[1].names
        /\ registry.arities = pass1_end[1].arities
        /\ registry.signatures = pass1_end[1].signatures
        /\ registry.shapes = pass1_end[1].shapes
        /\ registry.suites = pass1_end[1].suites
        /\ registry.implemented_names =
              pass1_end[1].implemented_names
                  \cup {accepted[i].name : i \in 1..Len(accepted)}
        /\ DOMAIN registry.entries =
              DOMAIN pass1_end[1].entries
                  \cup {accepted[i].hash : i \in 1..Len(accepted)}
        /\ \A h \in DOMAIN pass1_end[1].entries :
              registry.entries[h] = pass1_end[1].entries[h]
        /\ \A i \in 1..Len(accepted) :
              registry.entries[accepted[i].hash] = accepted[i].name

\* C4 witness: a run that returned Ok after two behaviours completed the DRY
\* step, the Registry then differing from the one pass 1 left
C4_Witness ==
    /\ pc = "done"
    /\ outcome.status = "Ok"
    /\ Len(accepted) = 2
    /\ registry # pass1_end[1]

\* the order of the parses and checks on one unit
CheckRank ==
    [structural |-> 1, linguistic |-> 2, semantic |-> 3, concern |-> 4,
     termination |-> 5, shape |-> 6, dry |-> 7]

\* every check but the first parse comes after the successful check before it
\* on the same unit, and no check runs twice on a unit
ChecksInOrder ==
    \A j \in 1..Len(log) :
        /\ log[j].check # "structural" =>
              \E i \in 1..(j - 1) :
                  /\ log[i].start = log[j].start
                  /\ log[i].ok
                  /\ CheckRank[log[i].check] = CheckRank[log[j].check] - 1
        /\ \A i \in 1..(j - 1) :
              ~(log[i].start = log[j].start /\ log[i].check = log[j].check)

\* a failed check is the last thing the run did, and the run returned its error
FirstFailureEnds ==
    \A i \in 1..Len(log) :
        ~log[i].ok =>
            /\ i = Len(log)
            /\ pc = "done"
            /\ outcome.status = "Err"
            /\ outcome.prefix = ErrorPrefix[log[i].check]
            /\ outcome.err.kind \in {"ParseError", "BehaviorConflict"}

\* C5 (as claimed): on each unit the checks run in the order linguistic,
\* concern, termination, shape, DRY; the first failure ends the run with that
\* error, nothing runs after it, and the name of the failing behaviour is
\* neither in the hash map nor marked implemented.
C5_FirstFailureAborts ==
    /\ ChecksInOrder
    /\ FirstFailureEnds
    /\ (Failed /\ discourse # <<>> /\ discourse[1].kind = "Behavior") =>
          /\ ~is_implemented(registry, discourse[1].header.name)
          /\ \A h \in DOMAIN registry.entries :
                registry.entries[h] # discourse[1].header.name

\* C5 (amended): the same order and the same end of the run; the failing unit
\* adds no hash entry and marks no name implemented: both are what they were
\* when the unit's parse began (a name an earlier unit or Session::new
\* registered stays registered).
C5_FailureAddsNothing ==
    /\ ChecksInOrder
    /\ FirstFailureEnds
    /\ Failed =>
          /\ registry.entries = unit_pre.entries
          /\ registry.implemented_names = unit_pre.implemented_names

\* C5 witness: the second unit of a source fails its termination check after
\* the first completed the DRY step
C5_Witness ==
    /\ pc = "done"
    /\ Failed
    /\ LastEntry.check = "termination"
    /\ LastEntry.start > 0
    /\ Len(accepted) = 1

---------------------------------------------------------------------------
(* C11: purity of the bodies parse_behavior accepts                        *)

RECURSIVE HasEmit(_)
HasEmit(e) ==
    \/ e.k \in {"Emit", "Broadcasts"}
    \/ \E i \in 1..Len(e.args) : HasEmit(e.args[i])

\* C11: a behaviour parse_behavior accepts with is_effect = false has no Emit
\* or Broadcasts node at any depth of its body, and the purity flag the body
\* was parsed under is the one of that behaviour, also when the parser has
\* parsed an effect behaviour before it.
C11_PureBodyHasNoEmit ==
    (pres.op = "parse_discourse" /\ pres.ok /\ pres.disc[1].kind = "Behavior") =>
        /\ parser.is_pure_context = ~pres.disc[1].header.is_effect
        /\ ~pres.disc[1].header.is_effect => ~HasEmit(pres.disc[1].body)

\* a pure behaviour accepted by the parser that accepted an emitting effect
\* behaviour before it
C11_Witness ==
    /\ pin.form = "body" /\ Len(pin.segs) = 2
    /\ pres.op = "parse_discourse" /\ pres.ok /\ pres.start > 0
    /\ pres.disc[1].kind = "Behavior" /\ ~pres.disc[1].header.is_effect
    /\ pres.disc[1].body.k = "If"
    /\ parser.is_pure_context

---------------------------------------------------------------------------
(* C12: if/then/else at the end of a behaviour that delivers nothing       *)

\* the behaviour of a "body" buffer the last call started at
CalledBehavior == pin.segs[IF pres.start = 0 THEN 1 ELSE 2]

\* C12: a behaviour declared to deliver nothing whose body ends in an
\* if/then/else is accepted when both branch tails are `nothing` or
\* emit/broadcasts, and refused with a ParseError when either tail is a literal.
\* (Emit tails are taken in an effect behaviour, where emit is allowed.)
C12_IfTails ==
    (/\ pin.form = "body" /\ pres.op = "parse_discourse"
     /\ CalledBehavior.delivers = "nothing" /\ CalledBehavior.body \in IfBodies
     /\ CalledBehavior.body = "if_emit" => CalledBehavior.is_effect) =>
        IF CalledBehavior.body \in {"if_nothing", "if_emit"}
        THEN pres.ok
        ELSE ~pres.ok /\ pres.err.kind = "ParseError"

---------------------------------------------------------------------------
(* C13: the depth limit                                                    *)

KissViolation == ParseError("KISS VIOLATION: The discourse is too deep")

\* C13: nesting that brings current_depth to exactly max_depth parses, nesting
\* that brings it to max_depth + 1 fails with the KISS VIOLATION ParseError, and
\* in a parse that succeeds current_depth never exceeds max_depth.
C13_DepthLimit ==
    pres.op # "none" =>
        /\ pres.ok => parser.peak <= max_depth
        /\ parser.peak > max_depth <=> (~pres.ok /\ pres.err = KissViolation)
        /\ (pin.form = "nest" /\ pres.op = "parse_expression"
                /\ parser.peak <= max_depth) => pres.ok

\* a nest that took current_depth to max_depth and parsed
C13_Witness ==
    /\ pin.form = "nest" /\ pres.op = "parse_expression"
    /\ pres.ok /\ parser.peak = max_depth /\ pres.end_pos = Len(tokens)

---------------------------------------------------------------------------
(* C14: what a recursive behaviour that passes the termination check holds *)

RECURSIVE CallsItself(_, _)
CallsItself(name, e) ==
    \/ e.k = "BehaviorCall" /\ e.s = name
    \/ \E i \in 1..Len(e.args) : CallsItself(name, e.args[i])

\* `X decreased-by k`, k a positive integer literal
IsDecrease(value, x) ==
    /\ value.k = "BehaviorCall" /\ value.s = "decreased-by"
    /\ Len(value.args) = 2
    /\ value.args[1] = IdentifierExpr(x)
    /\ value.args[2].k = "I64" /\ value.args[2].n > 0

\* the places of the diminishing input among the parameters
DiminishingPositions(header) ==
    { i \in 1..Len(header.takes) : header.takes[i].name = header.diminishing[1] }

\* every call of the behaviour to itself in e passes, in the diminishing
\* position, an identifier that the derivation in scope binds to a decrease of
\* the diminishing input; scope maps the names bound around e to their values
RECURSIVE SelfCallsDiminish(_, _, _)
SelfCallsDiminish(header, e, scope) ==
    IF e.k = "Derivation"
    THEN /\ SelfCallsDiminish(header, e.args[1], scope)
         /\ SelfCallsDiminish(header, e.args[2], Put(scope, e.s, e.args[1]))
    ELSE /\ (e.k = "BehaviorCall" /\ e.s = header.name) =>
                \A i \in DiminishingPositions(header) :
                    /\ i <= Len(e.args)
                    /\ e.args[i].k = "Identifier"
                    /\ e.args[i].s \in DOMAIN scope
                    /\ IsDecrease(scope[e.args[i].s], header.diminishing[1])
         /\ \A i \in 1..Len(e.args) : SelfCallsDiminish(header, e.args[i], scope)

\* C14 (as claimed): a behaviour that passes the termination check without the
\* waiver and calls itself has a `with diminishing: X` clause, and each call
\* to itself passes in the diminishing position an identifier whose binding
\* in scope is a derivation with value `X decreased-by k`, k a positive
\* integer literal.
C14_DiminishingProof ==
    (/\ log # <<>> /\ LastEntry.check = "termination" /\ LastEntry.ok
     /\ ~discourse[1].header.skip_termination_check
     /\ CallsItself(discourse[1].header.name, discourse[1].body)) =>
        /\ discourse[1].header.diminishing # <<>>
        /\ DiminishingPositions(discourse[1].header) # {}
        /\ SelfCallsDiminish(discourse[1].header, discourse[1].body, <<>>)

---------------------------------------------------------------------------
(* C15: one Module per run                                                 *)

SrpViolation ==
    ParseError("Concern Error (SRP Violation): Module cannot be declared. Discourse already has a module.")

\* the last step was the concern check of a Module declaration
ModuleChecked ==
    log # <<>> /\ LastEntry.check = "concern" /\ discourse[1].kind = "Module"

\* C15 (as claimed): within one Session, across all the scripts it runs, at
\* most one Module declaration is accepted; every later one fails with
\* "Concern Error (SRP Violation)" and leaves the recorded name and concern
\* unchanged.
C15_OneModulePerSession ==
    /\ Len(session.modules) <= 1
    /\ (ModuleChecked /\ ~LastEntry.ok) =>
          /\ outcome.err = SrpViolation
          /\ concern_validator.module_name = <<session.modules[1].name>>
          /\ concern_validator.module_concern = <<session.modules[1].concern>>

\* C15 (amended): within one call of run_script at most one Module declaration
\* is accepted; every later one of that call fails with "Concern Error (SRP
\* Violation)", ends the run and leaves the recorded name and concern
\* unchanged. A later call starts with no module recorded.
C15_OneModulePerRun ==
    /\ \A i, j \in 1..Len(session.modules) :
          session.modules[i].run = session.modules[j].run => i = j
    /\ ModuleChecked =>
          LET recorded == session.modules[Len(session.modules)] IN
          /\ session.modules # <<>>
          /\ recorded.run = session.runs
          /\ concern_validator.module_name = <<recorded.name>>
          /\ concern_validator.module_concern = <<recorded.concern>>
          /\ LastEntry.ok => recorded.name = discourse[1].name
          /\ ~LastEntry.ok =>
                /\ pc = "done"
                /\ outcome = Outcome("Err", "Semantic Analysis Error", SrpViolation)
    /\ pc = "pass1" => \A i \in 1..Len(session.modules) :
                          session.modules[i].run < session.runs

\* C15 witness: the second Module of a source is refused while the first stays
\* recorded
C15_Witness ==
    /\ ModuleChecked /\ ~LastEntry.ok
    /\ Len(session.modules) = 1
    /\ discourse[1].name # session.modules[1].name
    /\ concern_validator.module_name = <<session.modules[1].name>>

---------------------------------------------------------------------------
(* C17: a source the lexer stops in                                        *)

\* C17 (as claimed): when the lexer stops at an unterminated text literal or a
\* lone `-`, wherever in the source, the run over that source ends in a
\* ParseError and does not complete on the tokens produced before the stop.
C17_LexerStopFails ==
    (session.stop # "none" /\ pc = "done") =>
        /\ outcome.status = "Err"
        /\ outcome.err.kind = "ParseError"

---------------------------------------------------------------------------
(* Claims about the Lexer, checked under SpecLex                           *)

\* the source text the Lexer was made over
SourceText == emitted[1].before.input

\* line and column of the character at index i of a text, counted in the text
PositionIn(text, i) ==
    LET newlines == {j \in 1..(i - 1) : text[j] = "\n"}
    IN  [line |-> 1 + Cardinality(newlines),
         column |-> i - (CHOOSE j \in newlines \cup {0} :
                            \A k \in newlines : k <= j)]

\* the Lexer right after the first word of the token a call returned
AfterFirstWord(e) ==
    lex_single_identifier_or_keyword(skip_whitespace(e.before), <<>>).l

\* C16: when a composite-keyword probe fails, whichever word it fails at, the
\* Lexer is left with the line, column and input it had right after the first
\* word; the call that follows returns what a call from there returns, and an
\* identifier or colon it returns has as span its line and column in the source.
C16_ProbeRestores ==
    \A i \in 1..Len(emitted) :
        emitted[i].probe = "failed" =>
            /\ emitted[i].l = AfterFirstWord(emitted[i])
            /\ emitted[i].token \in {"The", "With", "Keeps", "A", "An"}
            /\ i < Len(emitted) =>
                 LET f == emitted[i + 1]
                     end == Len(SourceText) - Len(f.l.input)
                 IN  /\ f = [before |-> AfterFirstWord(emitted[i])]
                               @@ next_token(AfterFirstWord(emitted[i]))
                     /\ f.token = "Identifier" =>
                          f.span = PositionIn(SourceText, end - Len(f.s) + 1)
                     /\ f.token = "Colon" => f.span = PositionIn(SourceText, end)

\* a probe that read three more words, the last of them on a later line,
\* failed at the fourth, and the identifier after the first word was returned
C16_Witness ==
    /\ Len(emitted) >= 2
    /\ \E i \in 1..(Len(emitted) - 1) :
          /\ emitted[i].probe = "failed"
          /\ emitted[i].token \in {"With", "An"}
          /\ emitted[i].reach.line > emitted[i].saved.line
          /\ Len(emitted[i].saved.input) - Len(emitted[i].reach.input) > 17
          /\ emitted[i + 1].token = "Identifier"
          /\ emitted[i + 1].span.line > emitted[i].span.line

---------------------------------------------------------------------------
(* Claims about the Monomorphizer, checked under SpecMono                  *)

RECURSIVE HasActsAs(_)
HasActsAs(e) == e.k = "ActsAs" \/ \E i \in DOMAIN e.args : HasActsAs(e.args[i])

\* C18 (as claimed): after Monomorphizer::run no ActsAs node remains in any
\* behaviour body of the HIR list, whatever the callee and wherever the node
\* stood.
C18_NoActsAsRemains ==
    monomorphizer.step = "done" =>
        \A i \in DOMAIN hir : hir[i].k = "Behavior" => ~HasActsAs(hir[i].body)

\* the behaviours a HIR list defines
BehaviorNames(hir_list) ==
    {hir_list[i].header.name : i \in {j \in DOMAIN hir_list : hir_list[j].k = "Behavior"}}

\* the suffix of the concrete type of an acts-as subject
SubjectSuffix(subject) ==
    CASE subject = HirLiteral("F64") -> "float"
      [] subject = HirLiteral("I64") -> "integer"
      [] OTHER -> "unknown"

\* the calls in e whose argument list holds an acts-as node, each as the pair
\* of its callee and the suffix of the concrete type of the subject
RECURSIVE ShapeCalls(_)
ShapeCalls(e) ==
    (IF e.k = "Call"
     THEN {<<e.s, SubjectSuffix(e.args[i].args[1])>> :
              i \in {j \in DOMAIN e.args : e.args[j].k = "ActsAs"}}
     ELSE {})
    \cup UNION {ShapeCalls(e.args[i]) : i \in DOMAIN e.args}

\* the names of the calls in e
RECURSIVE CalledNames(_)
CalledNames(e) ==
    (IF e.k = "Call" THEN {e.s} ELSE {})
    \cup UNION {CalledNames(e.args[i]) : i \in DOMAIN e.args}

\* the type a suffix stands for
SuffixType(suffix) == IF suffix = "float" THEN F64T ELSE I64T

\* C19 (as claimed): for every call of a behaviour of the list whose argument
\* list holds an acts-as node, run adds exactly one copy per distinct (callee,
\* concrete type) pair, named <callee>_<suffix>, with every shape-typed
\* parameter replaced by the concrete type; it keeps the originals; and it
\* rewrites the call site to name the copy.
C19_OneCopyPerPair ==
    monomorphizer.step = "done" =>
        LET sites == [i \in DOMAIN hir_in |->
                        {c \in ShapeCalls(hir_in[i].body) :
                            c[1] \in BehaviorNames(hir_in)}]
            pairs == UNION {sites[i] : i \in DOMAIN hir_in}
        IN  /\ Len(hir) = Len(hir_in) + Cardinality(pairs)
            /\ \A i \in DOMAIN hir_in : hir[i].header = hir_in[i].header
            /\ \A c \in pairs :
                  \E i \in (Len(hir_in) + 1)..Len(hir), j \in DOMAIN hir_in :
                      /\ hir_in[j].header.name = c[1]
                      /\ hir[i].header.name = c[1] \o "_" \o c[2]
                      /\ hir[i].header.args =
                            [a \in DOMAIN hir_in[j].header.args |->
                               IF hir_in[j].header.args[a].typ.k = "Shape"
                               THEN HirArgument(hir_in[j].header.args[a].name,
                                                SuffixType(c[2]))
                               ELSE hir_in[j].header.args[a]]
            /\ \A i \in DOMAIN hir_in : \A c \in sites[i] :
                  /\ (c[1] \o "_" \o c[2]) \in CalledNames(hir[i].body)
                  /\ c \notin ShapeCalls(hir[i].body)

---------------------------------------------------------------------------
(* Claims about the MirBuilder, checked under SpecMir                      *)

\* the places of the instructions of a MirFunction: <<block, index>>
Places(f) ==
    UNION {{<<b, j>> : j \in DOMAIN f.blocks[b].instructions} : b \in DOMAIN f.blocks}
At(f, place) == f.blocks[place[1]].instructions[place[2]]

\* the places of the instructions whose dest is id
DestPlaces(f, id) == {place \in Places(f) : At(f, place).dest = <<id>>}

\* the ids of the Variable operands in a sequence of operands
OperandIds(operands) ==
    {operands[i].v : i \in {j \in DOMAIN operands : operands[j].k = "Variable"}}

\* every SSA id a MirFunction holds: of its parameters, as dest, as operand
SsaIds(f) ==
    {f.args[i].ssa_var : i \in DOMAIN f.args}
    \cup UNION {{At(f, place).dest[i] : i \in DOMAIN At(f, place).dest} \cup
                OperandIds(At(f, place).operands) : place \in Places(f)}
    \cup UNION {OperandIds(f.blocks[b].terminator.operand) : b \in DOMAIN f.blocks}

\* the if/then/else nodes of a body
RECURSIVE IfCount(_, _)
IfCount(exprs, i) ==
    IF i > Len(exprs) THEN 0
    ELSE (IF exprs[i].k = "If" THEN 1 ELSE 0)
         + IfCount(exprs[i].args, 1) + IfCount(exprs, i + 1)

\* the behaviour the n-th MirFunction was built from: the n-th of the list
BehaviorOf(n) ==
    hir[CHOOSE i \in DOMAIN hir :
           /\ hir[i].k = "Behavior"
           /\ Cardinality({j \in 1..i : hir[j].k = "Behavior"}) = n]

\* id holds the result of an if/then/else: two Assigns have it as dest, each
\* the last instruction of its block, and the two blocks branch to one block
IsIfResult(f, id) ==
    /\ Cardinality(DestPlaces(f, id)) = 2
    /\ \A place \in DestPlaces(f, id) :
          /\ At(f, place).k = "Assign"
          /\ place[2] = Len(f.blocks[place[1]].instructions)
          /\ f.blocks[place[1]].terminator.k = "Branch"
    /\ Cardinality({place[1] : place \in DestPlaces(f, id)}) = 2
    /\ Cardinality({f.blocks[place[1]].terminator.targets :
                       place \in DestPlaces(f, id)}) = 1

\* the SSA ids of f are 0..n-1 and its parameters hold 0..|params|-1 in order
DenseIds(f) ==
    /\ SsaIds(f) = 0..(Cardinality(SsaIds(f)) - 1)
    /\ \A i \in DOMAIN f.args : f.args[i].ssa_var = i - 1
    /\ \A i \in DOMAIN f.args : DestPlaces(f, i - 1) = {}

\* C20 (amended): in every MirFunction built the SSA ids are exactly 0..n-1,
\* the parameters hold 0..|params|-1 in order and are the dest of no
\* instruction, the numbering restarts at 0 for each function, and each id is
\* the dest of at most one instruction, but for the id that holds the result
\* of an if/then/else: it is the dest of two Assigns, one at the end of the
\* block the then branch ends in and one at the end of the block the else
\* branch ends in; there is one such id per if/then/else of the body.
C20_SsaIds ==
    \A n \in DOMAIN mir.functions :
        LET f == mir.functions[n]
            twice == {id \in SsaIds(f) : Cardinality(DestPlaces(f, id)) > 1}
        IN  /\ DenseIds(f)
            /\ \A id \in twice : IsIfResult(f, id)
            /\ Cardinality(twice) = IfCount(<<BehaviorOf(n).body>>, 1)

\* C20 (as claimed): the same, with each id, the one that holds the result of
\* an if/then/else too, the dest of at most one instruction.
C20_SingleAssignment ==
    \A n \in DOMAIN mir.functions :
        /\ DenseIds(mir.functions[n])
        /\ \A id \in SsaIds(mir.functions[n]) :
              Cardinality(DestPlaces(mir.functions[n], id)) <= 1

\* a second function of a program, with parameters, was built from a body with
\* an if/then/else inside a branch of another, after a first function that
\* took ids of its own
C20_Witness ==
    /\ Len(mir.functions) = 2
    /\ mir.functions[1].args # <<>>
    /\ SsaIds(mir.functions[1]) # {}
    /\ Len(mir.functions[2].args) = 2
    /\ IfCount(<<BehaviorOf(2).body>>, 1) = 2
    /\ \E id \in SsaIds(mir.functions[2]) : IsIfResult(mir.functions[2], id)

\* C21 (as claimed): a derivation's name is bound only while its body is
\* built: every Variable met resolves to the binding of the innermost
\* derivation whose body it stands in, else to the parameter of that name,
\* else to none; so a name read after its derivation gets the binding that
\* was in force before, and none from another if-branch or after the merge.
C21_LexicalScope ==
    \A i \in DOMAIN mir.refs : mir.refs[i].got = mir.refs[i].bound

---------------------------------------------------------------------------
(* Semantic hash claims (Spec)                                             *)

\* a run over two behaviours with one signature whose bodies are two
\* spellings of one body has ended
TwoSpellings(family) ==
    /\ pc = "done"
    /\ Len(script) = 2
    /\ script[1] \in family
    /\ script[2] \in family
    /\ script[1] # script[2]

\* the second behaviour failed DRY registration with a conflict naming the first
ConflictWithFirst ==
    /\ outcome.status = "Err"
    /\ outcome.prefix = ErrorPrefix.dry
    /\ outcome.err = BehaviorConflict(script[2], script[1])

\* C22 (as claimed): two behaviours with the same signature whose bodies
\* differ only in surface spelling (emit or broadcasts, let or derivation,
\* with or without a type annotation) get equal hashes, so the second fails
\* DRY registration with a conflict naming the first.
C22_SpellingsCollide ==
    \A family \in Spellings : TwoSpellings(family) => ConflictWithFirst

\* the part of C22 that holds: let or derivation, annotated or not
C22_DerivationSpellingsCollide ==
    TwoSpellings({"derive", "annotated", "bind"}) => ConflictWithFirst

---------------------------------------------------------------------------
(* Call arity claims (SpecParse)                                           *)

\* the BehaviorCall nodes of an expression, at any depth
RECURSIVE Calls(_)
Calls(e) ==
    (IF e.k = "BehaviorCall" THEN {e} ELSE {})
        \cup UNION { Calls(e.args[i]) : i \in 1..Len(e.args) }

\* the expressions the last parser call returned
Parsed ==
    { pres.expr[i] : i \in DOMAIN pres.expr }
        \cup { pres.disc[i].body : i \in { j \in DOMAIN pres.disc :
                                              pres.disc[j].kind = "Behavior" } }

\* C23 (as claimed): every BehaviorCall the parser builds for a registered
\* behaviour has exactly get_arity(name) arguments, in infix position (the
\* subject and arity - 1 primaries) and in primary position (none), for every
\* arity, 0 and 1 after a subject included.
C23_CallArity ==
    \A e \in Parsed : \A call \in Calls(e) :
        (preg # <<>> /\ is_registered(preg[1], call.s)) =>
            Len(call.args) = ArityOr0(preg[1], call.s)

\* the part of C23 that holds: the calls of behaviours of arity 1 or more
C23_CallArityFrom1 ==
    \A e \in Parsed : \A call \in Calls(e) :
        (preg # <<>> /\ is_registered(preg[1], call.s)
            /\ ArityOr0(preg[1], call.s) >= 1) =>
            Len(call.args) = ArityOr0(preg[1], call.s)

---------------------------------------------------------------------------
(* Recursion depth claims (SpecParse)                                      *)

\* the Let and Derivation tokens of the input
Binds == Cardinality({ i \in DOMAIN tokens : tokens[i].t \in {"Let", "Derivation"} })

\* C24 (as claimed): the number of parse_expression calls active at the same
\* time never exceeds 16, also with derivations nested in each other's bodies.
C24_ActiveAtMost16 == parser.most <= max_depth

\* C24 (amended): current_depth never exceeds max_depth in a parse that
\* succeeds, and the parse_expression calls active at the same time are at most
\* max_depth, plus max_depth - 1 for every let or derivation of the input, whose
\* body starts again at a depth of 1: the recursion is bounded by the length of
\* the input.
C24_ActivePerDerivation ==
    /\ pres.ok => parser.peak <= max_depth
    /\ parser.most <= max_depth + (max_depth - 1) * Binds

\* a parse that succeeded with more than max_depth calls active at once
C24_Witness ==
    /\ pres.op = "parse_expression" /\ pres.ok /\ pres.end_pos = Len(tokens)
    /\ parser.most > max_depth
    /\ Binds = 1

---------------------------------------------------------------------------
(* Control-flow graph claims (SpecMir)                                     *)

\* the ids of the blocks of f, and the block with a given id
BlockIds(f) == { f.blocks[b].id : b \in DOMAIN f.blocks }
BlockOf(f, id) == f.blocks[CHOOSE b \in DOMAIN f.blocks : f.blocks[b].id = id]

\* the blocks that end in a terminator of kind k
Ending(f, k) == { b \in DOMAIN f.blocks : f.blocks[b].terminator.k = k }

\* the ids of the blocks reached from the block id without entering stop, in
\* at most n steps
RECURSIVE Reach(_, _, _, _)
Reach(f, id, stop, n) ==
    IF id = stop \/ id \notin BlockIds(f) THEN {}
    ELSE IF n = 0 THEN {id}
    ELSE {id} \cup UNION { Reach(f, BlockOf(f, id).terminator.targets[i], stop, n - 1) :
                             i \in DOMAIN BlockOf(f, id).terminator.targets }

\* of the blocks reached from id, those that branch to merge, each with the
\* Assign to the if-result it ends in
Closing(f, id, merge) ==
    { [id |-> x, assign |-> BlockOf(f, x).instructions] :
        x \in { y \in Reach(f, id, merge, Len(f.blocks)) :
                  BlockOf(f, y).terminator = Branch(merge) } }

\* the diamond of a block that ends in CondBranch: then, else and merge hold
\* three ids in a row, one block on the then path and one on the else path
\* branch to merge, both end in an Assign to one id, and no other block
\* branches to merge
Diamond(f, b) ==
    LET then_id == f.blocks[b].terminator.targets[1]
        else_id == f.blocks[b].terminator.targets[2]
        merge_id == else_id + 1
        then_end == Closing(f, then_id, merge_id)
        else_end == Closing(f, else_id, merge_id)
    IN  /\ else_id = then_id + 1
        /\ merge_id \in BlockIds(f)
        /\ Cardinality(then_end) = 1 /\ Cardinality(else_end) = 1
        /\ then_end \cap else_end = {}
        /\ \A x \in then_end \cup else_end :
              /\ x.assign # <<>>
              /\ x.assign[Len(x.assign)].k = "Assign"
        /\ \A x \in then_end, y \in else_end :
              x.assign[Len(x.assign)].dest = y.assign[Len(y.assign)].dest
        /\ { f.blocks[x].id : x \in { y \in DOMAIN f.blocks :
                                        f.blocks[y].terminator = Branch(merge_id) } }
             = { x.id : x \in then_end \cup else_end }

\* C25: every MirFunction built has pairwise distinct block ids, every Branch
\* and CondBranch target is the id of one of its blocks, no block ends in
\* Unreachable, exactly one block ends in Return, and each if/then/else of
\* the body adds exactly three blocks (then, else, merge) whose then and else
\* paths each assign the if-result and end in Branch(merge).
C25_BlockStructure ==
    \A n \in DOMAIN mir.functions :
        LET f == mir.functions[n]
        IN  /\ Cardinality(BlockIds(f)) = Len(f.blocks)
            /\ \A b \in DOMAIN f.blocks :
                  \A i \in DOMAIN f.blocks[b].terminator.targets :
                      f.blocks[b].terminator.targets[i] \in BlockIds(f)
            /\ Ending(f, "Unreachable") = {}
            /\ Cardinality(Ending(f, "Return")) = 1
            /\ Len(f.blocks) = 1 + 3 * IfCount(<<BehaviorOf(n).body>>, 1)
            /\ Cardinality(Ending(f, "CondBranch")) = IfCount(<<BehaviorOf(n).body>>, 1)
            /\ \A b \in Ending(f, "CondBranch") : Diamond(f, b)

\* a function built from an if/then/else with another in its then branch,
\* after a function with an if/then/else of its own
C25_Witness ==
    /\ Len(mir.functions) = 2
    /\ IfCount(<<BehaviorOf(1).body>>, 1) >= 1
    /\ BehaviorOf(2).body = MirBodies.if_in_then
    /\ Len(mir.functions[2].blocks) = 7

---------------------------------------------------------------------------
(* Claims about the two passes (Spec)                                      *)

\* the starts of the units a parse of one kind returned Ok for
Starts(check) ==
    { log[i].start : i \in { j \in DOMAIN log : log[j].check = check /\ log[j].ok } }

\* a shape of reg promises a behaviour called name
Promised(reg, name) ==
    \E shape \in DOMAIN reg.shapes :
        \E i \in DOMAIN reg.shapes[shape] : reg.shapes[shape][i].name = name

\* the i-th behaviour of pass 1 is the only declaration of its name: no other
\* behaviour, no shape promise and no built-in has it
DeclaredOnce(i) ==
    /\ \A j \in DOMAIN declared : j # i => declared[j].name # declared[i].name
    /\ ~Promised(pass1_end[1], declared[i].name)
    /\ ~is_registered(SessionRegistry, declared[i].name)

\* pass 2 has begun the parse of a unit: unit_pre is the Registry it was given
Pass2Parsed == \E i \in DOMAIN log : log[i].check = "semantic"

\* pass 2 has parsed the unit in discourse
InPass2 == pc \in {"concern", "termination", "shape", "dry"}

---------------------------------------------------------------------------
(* Integer literal claims (SpecParse)                                      *)

\* LoweringVisitor::lower_expression on an integer literal: the value of the
\* HirLiteral::I64 it gives
lower_literal(e) == IF e.k = "I64" THEN e.n ELSE AsI64(e.n)

\* C27 (as claimed): an integer literal the lexer accepted keeps its value
\* through parsing and HIR lowering: for every value of the i128 range, the
\* 64-bit literal of the AST and of the HIR equals the value written.
C27_LiteralValue ==
    (pin.form = "literal" /\ FirstCall("parse_expression") /\ pres.ok) =>
        /\ pres.expr[1].n = pin.name.n
        /\ lower_literal(pres.expr[1]) = pin.name.n

\* the part of C27 that holds: a value of the i64 range is kept
C27_LiteralValueInI64 ==
    (pin.form = "literal" /\ FirstCall("parse_expression") /\ pres.ok
        /\ pin.name.n < Pow2(I64Bits - 1)) =>
        /\ pres.expr[1].k = "I64"
        /\ pres.expr[1].n = pin.name.n
        /\ lower_literal(pres.expr[1]) = pin.name.n

---------------------------------------------------------------------------
(* SpecEval: an Interpreter on which behaviours are registered and          *)
(* expressions evaluated                                                   *)

I64Expr(n) == Leaf("I64", "", n)
EmitExpr(e) == Node("Emit", "", 0, 0, <<>>, <<e>>)
LetExpr(name, value, body) == DerivationExpr(name, <<>>, value, body)
IntegerInfo == TypeInfo(Ty("I64"), "integer", "An", <<>>)
EvalBehavior(name, takes, body) ==
    BehaviorDiscourse(
        BehaviorHeader(name, FALSE, <<>>,
                       [i \in DOMAIN takes |-> Argument(takes[i], IntegerInfo)],
                       Ty("I64"), <<>>, FALSE),
        body)

\* the behaviours that are registered: one that calls a built-in, one that
\* reads a name of its caller, one that calls an unknown behaviour, one that
\* shadows its parameter and one that calls itself
EvalBehaviors ==
    [inc |-> EvalBehavior("inc", <<"n">>,
                          BehaviorCall("added-to", <<IdentifierExpr("n"), I64Expr(1)>>)),
     peek |-> EvalBehavior("peek", <<"n">>,
                           BlockExpr(<<EmitExpr(IdentifierExpr("x")), IdentifierExpr("x")>>)),
     fail |-> EvalBehavior("fail", <<"n">>, BehaviorCall("missing", <<>>)),
     leak |-> EvalBehavior("leak", <<"x">>,
                           LetExpr("x", I64Expr(9),
                                   LetExpr("y", IdentifierExpr("x"), IdentifierExpr("y")))),
     count |-> EvalBehavior("count", <<"n", "x">>,
                            IfExpr(IdentifierExpr("n"),
                                   BehaviorCall("count",
                                       <<BehaviorCall("decreased-by",
                                             <<IdentifierExpr("n"), I64Expr(1)>>),
                                         IdentifierExpr("n")>>),
                                   IdentifierExpr("x")))]

\* the expressions that are evaluated
EvalBodies ==
    [\* test_interpreter_let_and_identifier, with a value of the scaled width
     let_identifier |-> LetExpr("x", I64Expr(12), IdentifierExpr("x")),
     \* a let in the body of a let of the same name, and a use after it
     shadow |-> LetExpr("x", I64Expr(1),
                        BlockExpr(<<LetExpr("x", I64Expr(2), IdentifierExpr("x")),
                                    EmitExpr(IdentifierExpr("x"))>>)),
     \* calls under a binding of x; the last one fails
     calls |-> LetExpr("x", I64Expr(1),
                       BlockExpr(<<LetExpr("x", I64Expr(2),
                                           BehaviorCall("peek", <<IdentifierExpr("x")>>)),
                                   BehaviorCall("leak", <<IdentifierExpr("x")>>),
                                   EmitExpr(IdentifierExpr("x")),
                                   BehaviorCall("fail", <<IdentifierExpr("x")>>)>>)),
     \* the value of a let fails under a binding of the same name
     value_fails |-> LetExpr("x", I64Expr(1),
                             LetExpr("x", BehaviorCall("fail", <<>>), IdentifierExpr("x"))),
     \* a call with fewer arguments than parameters, and a recursive one
     recursion |-> LetExpr("n", I64Expr(7),
                           BlockExpr(<<BehaviorCall("count", <<I64Expr(2)>>),
                                       BehaviorCall("inc", <<>>)>>)),
     \* a let among the arguments of a call, and a use after the call
     let_argument |-> BlockExpr(<<BehaviorCall("inc",
                                      <<LetExpr("x", I64Expr(3), IdentifierExpr("x"))>>),
                                  EmitExpr(IdentifierExpr("x"))>>)]

\* evaluate_expression is called at most MaxEvals times
MaxEvals == 2

InitEval ==
    /\ EvalIdle
    /\ LexIdle
    /\ CompileIdle
    /\ registry = RegistryNew
    /\ RegIdle
    /\ ParseIdle
    /\ RunIdle

\* Interpreter::register_behavior
RegisterBehavior ==
    /\ \E name \in DOMAIN EvalBehaviors :
          /\ name \notin DOMAIN interpreter_behaviors
          /\ interpreter_behaviors' = Put(interpreter_behaviors, name, EvalBehaviors[name])
    /\ UNCHANGED <<regVars, parseVars, stageVars, pc, current_pos, discourse,
                   concern_validator, behaviors_to_run, outcome, script, session, log,
                   accepted, declared, unit_pre, pass1_end>>

\* Interpreter::evaluate_expression; trace is that of the last call
EvaluateExpression ==
    /\ interpreter.evals < MaxEvals
    /\ \E body \in DOMAIN EvalBodies :
          LET r == evaluate_expression([interpreter EXCEPT !.trace = <<>>],
                                       interpreter_behaviors, EvalBodies[body])
          IN  interpreter' = [r.it EXCEPT !.evals = @ + 1,
                                          !.executed = <<body>>,
                                          !.result = <<[ok |-> r.ok, v |-> r.v,
                                                        err |-> r.err]>>]
    /\ UNCHANGED <<regVars, parseVars, lexVars, compileVars, runVars>>

NextEval == RegisterBehavior \/ EvaluateExpression

SpecEval == InitEval /\ [][NextEval]_vars

---------------------------------------------------------------------------
(* C29: visit_let and call_behavior leave the variable store as it was     *)

ParameterNames(name) ==
    { interpreter_behaviors[name].header.takes[i].name :
        i \in DOMAIN interpreter_behaviors[name].header.takes }

\* C29: for every visit_let and call_behavior that returned, with a value or
\* with an error, the store at the return is the store at the call; the body
\* of a user behaviour began with a store that holds nothing but parameters of
\* the behaviour; and the store is empty again after the outermost call.
C29_StoreRestored ==
    /\ \A i \in DOMAIN interpreter.trace :
          /\ interpreter.trace[i].after = interpreter.trace[i].before
          /\ interpreter.trace[i].seen # <<>> =>
                DOMAIN interpreter.trace[i].seen[1]
                    \subseteq ParameterNames(interpreter.trace[i].name)
    /\ interpreter.variables = <<>>

\* C29 witness: one evaluation in which a let restored the previous binding of
\* its name, a let removed its name, a behaviour was called under bindings it
\* did not see, and a call and the let around it returned an error
C29_Witness ==
    /\ \E i \in DOMAIN interpreter.trace :
          /\ interpreter.trace[i].op = "visit_let"
          /\ interpreter.trace[i].name \in DOMAIN interpreter.trace[i].before
          /\ interpreter.trace[i].ok
    /\ \E i \in DOMAIN interpreter.trace :
          /\ interpreter.trace[i].op = "visit_let"
          /\ interpreter.trace[i].name \notin DOMAIN interpreter.trace[i].before
          /\ ~interpreter.trace[i].ok
    /\ \E i \in DOMAIN interpreter.trace :
          /\ interpreter.trace[i].op = "call_behavior"
          /\ interpreter.trace[i].seen # <<>>
          /\ "x" \in DOMAIN interpreter.trace[i].before
          /\ "x" \notin DOMAIN interpreter.trace[i].seen[1]
          /\ interpreter.trace[i].ok
    /\ \E i \in DOMAIN interpreter.trace :
          /\ interpreter.trace[i].op = "call_behavior"
          /\ interpreter.trace[i].before # <<>>
          /\ ~interpreter.trace[i].ok
    /\ interpreter.emitted # <<>>

---------------------------------------------------------------------------
(* C28: run_script executes only after every unit passed every check        *)

\* the units of the token buffer, by the position pass 1 found them at
UnitStarts == { log[i].start : i \in { j \in DOMAIN log : log[j].check = "structural" } }

\* the checks of both passes a behaviour goes through
BehaviorChecks ==
    {"structural", "linguistic", "semantic", "concern", "termination", "shape", "dry"}

\* C28: a behaviour body is evaluated, and output emitted, only when every
\* unit of the source was parsed by both passes and every check of every unit
\* passed; a run that ends with the failure of a unit has executed nothing and
\* emitted nothing, whatever `run` or `main` came before the failing unit.
C28_ExecuteAfterAllUnits ==
    /\ interpreter # InterpreterNew =>
          /\ interpreter.executed # <<>>
          /\ Pass2Left
          /\ \A i \in DOMAIN log : log[i].ok
          /\ Starts("structural") = UnitStarts
          /\ Starts("semantic") = UnitStarts
          /\ \A i \in DOMAIN declared : \A check \in BehaviorChecks :
                declared[i].start \in Starts(check)
          /\ \A i \in DOMAIN interpreter.executed :
                interpreter.executed[i] \in {"run", "main"}
    /\ interpreter.emitted # <<>> => interpreter.executed # <<>>
    /\ (pc = "done" /\ outcome.status = "Err" /\ outcome.prefix # "Runtime Error") =>
          interpreter = InterpreterNew
    /\ (\E i \in DOMAIN log : ~log[i].ok) => interpreter = InterpreterNew

\* C28 witness: `main`, the first of two units, has been executed after the
\* unit behind it passed its last check, and has emitted the 6 its call of
\* `double` returned
C28_Witness ==
    /\ Len(script) = 2
    /\ script[1] = "main"
    /\ interpreter.executed = <<"main">>
    /\ interpreter.emitted = <<I64Value(6)>>
    /\ Cardinality(Starts("dry")) = 2

\* a run in which `main` came before a unit that failed
C28_FailedAfterMain ==
    /\ Len(script) = 2
    /\ script[1] = "main"
    /\ pc = "done"
    /\ outcome.status = "Err"
    /\ interpreter = InterpreterNew

---------------------------------------------------------------------------
(* SpecLoops: the loops of run_script                                       *)

\* the token loop on a source text, where no run is under way
TokenLoop == RunIdle /\ NextToken

\* the loops of pass 1, of pass 2 and of behaviors_to_run, on a token buffer
PassLoop == LexIdle /\ Next

InitLoops == InitLex \/ Init

NextLoops == TokenLoop \/ PassLoop

SpecLoops == InitLoops /\ [][NextLoops]_vars

---------------------------------------------------------------------------
(* C30: tokenization and both passes terminate                             *)

\* the entries of log that are parses of pass 1 or of pass 2
Parses == { i \in DOMAIN log : log[i].check \in {"structural", "semantic"} }

\* the position of the loop after the parse of log[i]: the start of the next
\* parse of the same pass, and current_pos while the pass is still at it
After(i) ==
    IF \E j \in Parses : j > i /\ log[j].check = log[i].check
    THEN <<log[CHOOSE j \in Parses :
                  /\ j > i
                  /\ log[j].check = log[i].check
                  /\ \A k \in Parses : (k > i /\ log[k].check = log[i].check) => j <= k].start>>
    ELSE IF log[i].check = "structural" /\ pass1_end # <<>> THEN <<>>
    ELSE <<current_pos>>

\* every next_token call consumes no less than nothing and, when it returns a
\* token, at least one character; every call starts where the one before it
\* ended, behind every earlier start; a parse that returned Ok moved the
\* position of its pass forward, and no pass parses at a position twice
Progress ==
    /\ \A i \in DOMAIN emitted :
          /\ Len(emitted[i].l.input) <= Len(emitted[i].before.input)
          /\ emitted[i].some => Len(emitted[i].l.input) < Len(emitted[i].before.input)
          /\ i > 1 => emitted[i].before = emitted[i - 1].l
          /\ \A j \in DOMAIN emitted :
                i < j => Len(emitted[j].before.input) < Len(emitted[i].before.input)
    /\ \A i \in Parses :
          /\ (log[i].ok /\ After(i) # <<>>) => After(i)[1] > log[i].start
          /\ \A j \in Parses :
                (i < j /\ log[i].check = log[j].check) => log[i].start < log[j].start
    /\ current_pos <= Len(tokens)

\* the token loop got its None, or run_script returned
Halted ==
    \/ emitted # <<>> /\ ~emitted[Len(emitted)].some
    \/ pc = "done"

\* the iterations the token loop has left at most: one for every character
\* and one for the None
TokenVariant ==
    Len(lexer.input) + (IF emitted # <<>> /\ ~emitted[Len(emitted)].some THEN 0 ELSE 1)

\* the place of a check in the iteration of its pass, counted from the end
StageRank ==
    [pass2 |-> 1, dry |-> 2, shape |-> 3, termination |-> 4, concern |-> 5,
     pass1 |-> 7, linguistic |-> 8]

\* the most steps that pass 2 and the loop over behaviors_to_run take
Pass2Variant(remaining, stage) ==
    IF remaining = 0 /\ stage = "pass2" THEN 1 + Len(behaviors_to_run)
    ELSE remaining * 8 + StageRank[stage] + Len(tokens) + 2

\* a number that bounds the steps run_script has left
PassVariant ==
    CASE pc = "done" -> 0
      [] pc \in {"pass1", "linguistic"} ->
           Pass2Variant(Len(tokens), "concern") + 1
               + (Len(tokens) - current_pos) * 8 + StageRank[pc]
      [] pc \in {"pass2", "dry", "shape", "termination", "concern"} ->
           Pass2Variant(Len(tokens) - current_pos, pc)
      [] OTHER -> 0

\* a step of the token loop lowers TokenVariant, a step of run_script after
\* its start lowers PassVariant
Decreases ==
    /\ emitted' # emitted => TokenVariant' < TokenVariant
    /\ pc # "idle" => PassVariant' < PassVariant

\* C30: the token loop and the loops of both passes make progress with every
\* iteration, so that no loop is at a position twice, and every step lowers a
\* natural number: from a source of n characters the token loop ends within
\* n + 1 calls, and the passes within a number of steps that the number of
\* tokens bounds.
C30_Terminates == []Progress /\ [][Decreases]_vars

\* C30 witness: a run that returned Ok after both passes parsed two units
C30_Witness ==
    /\ pc = "done"
    /\ outcome.status = "Ok"
    /\ Cardinality(Starts("structural")) = 2
    /\ Cardinality(Starts("semantic")) = 2
    /\ \E i \in Parses : log[i].start > 0 /\ After(i) = <<Len(tokens)>>

\* a token loop that ended after a comment, a character that starts no token
\* and three tokens
C30_TokensWitness ==
    /\ Len(emitted) = 4
    /\ ~emitted[4].some
    /\ emitted[4].l.input = <<>>
    /\ \E i \in 1..3 :
          Len(emitted[i].before.input) - Len(emitted[i].l.input) > 5

====
